---- MODULE Spec2Model ----
(***************************************************************************)
(* Model of the backtesting core of Trading_model:                         *)
(*   strategies/base.py, strategies/moving_average.py,                     *)
(*   strategies/mean_reversion.py, strategies/momentum.py,                 *)
(*   backtesting/engine.py, data/collector.py (calculate_returns).         *)
(*                                                                         *)
(* Numbers.  A pandas float is modelled as an exact extended rational      *)
(* [n, d] in lowest terms with d >= 0:  d > 0 is the finite number n/d,    *)
(* 0/0 is not-a-number, 1/0 and -1/0 are +inf and -inf.  Rounding of       *)
(* IEEE doubles is not modelled.                                           *)
(*                                                                         *)
(* Square roots.  The rolling standard deviation and the z-score are       *)
(* irrational; a quantity x of that dimension is stored as its signed      *)
(* square  sgn(x) * x^2,  which is rational and has the same order and the *)
(* same zero, infinite and not-a-number cases as x.                        *)
(*                                                                         *)
(* Series.  A pandas Series is [index, values]: two sequences of the same  *)
(* length, the labels (timestamps, integers) and the numbers.              *)
(*                                                                         *)
(* Records are written with their fields in the order in which the field   *)
(* names first occur in this module, which is the order TLC keeps them in. *)
(***************************************************************************)
EXTENDS Integers, Sequences, FiniteSets

(***************************************************************************)
(* Bounds of the model                                                     *)
(***************************************************************************)
MaxLen == 4
MaxPrice == 2
MaxWin == 3

(***************************************************************************)
(* Extended rational arithmetic (numpy float64 semantics, exact)           *)
(***************************************************************************)
AbsI(k) == IF k < 0 THEN -k ELSE k
SgnI(k) == IF k > 0 THEN 1 ELSE IF k < 0 THEN -1 ELSE 0

RECURSIVE Gcd(_, _)
Gcd(a, b) == IF b = 0 THEN a ELSE Gcd(b, a % b)

Norm(n, d) ==
    IF d = 0 THEN [n |-> SgnI(n), d |-> 0]
    ELSE LET g == Gcd(AbsI(n), AbsI(d))
         IN  [n |-> SgnI(d) * (n \div g), d |-> AbsI(d) \div g]

R(n, d) == Norm(n, d)
I(k) == [n |-> k, d |-> 1]
NaN == [n |-> 0, d |-> 0]

IsNaN(x) == x.d = 0 /\ x.n = 0
IsInf(x) == x.d = 0 /\ x.n # 0

Neg(a) == [n |-> -a.n, d |-> a.d]
AbsN(a) == [n |-> AbsI(a.n), d |-> a.d]

Add(a, b) ==
    IF IsNaN(a) \/ IsNaN(b) THEN NaN
    ELSE IF IsInf(a) /\ IsInf(b) THEN (IF a.n = b.n THEN a ELSE NaN)
    ELSE IF IsInf(a) THEN a
    ELSE IF IsInf(b) THEN b
    ELSE Norm(a.n * b.d + b.n * a.d, a.d * b.d)

Sub(a, b) == Add(a, Neg(b))

Mul(a, b) ==
    IF IsNaN(a) \/ IsNaN(b) THEN NaN
    ELSE Norm(a.n * b.n, a.d * b.d)

Div(a, b) ==
    IF IsNaN(a) \/ IsNaN(b) THEN NaN
    ELSE IF b.d > 0 /\ b.n = 0 THEN Norm(a.n, 0)
    ELSE Norm(a.n * b.d * SgnI(b.n), a.d * AbsI(b.n))

\* Comparisons: any comparison with not-a-number is False.
Gt(a, b) ==
    /\ ~IsNaN(a) /\ ~IsNaN(b)
    /\ IF a.d = 0 /\ b.d = 0 THEN a.n > b.n ELSE a.n * b.d > b.n * a.d
Lt(a, b) == Gt(b, a)
Le(a, b) ==
    /\ ~IsNaN(a) /\ ~IsNaN(b)
    /\ IF a.d = 0 /\ b.d = 0 THEN a.n <= b.n ELSE a.n * b.d <= b.n * a.d
Ne(a, b) == a # b \/ IsNaN(a)

\* Signed square sgn(a) * a^2: the stored form of a quantity under a root.
SSq(a) == Mul(a, AbsN(a))

(***************************************************************************)
(* pandas Series operations                                                *)
(***************************************************************************)
\* (the concatenations with <<>> only make TLC evaluate the two sequences once)
Series(idx, vals) == [index |-> idx \o <<>>, values |-> vals \o <<>>]
EmptySeries == Series(<<>>, <<>>)
SLen(s) == Len(s.index)
Const(idx, x) == Series(idx, [i \in 1..Len(idx) |-> x])

\* s.shift(k): values move k places towards later labels, the first k are NaN.
shift(s, k) ==
    Series(s.index, [i \in 1..SLen(s) |-> IF i <= k THEN NaN ELSE s.values[i - k]])

\* s.fillna(x)
fillna(s, x) ==
    Series(s.index, [i \in 1..SLen(s) |-> IF IsNaN(s.values[i]) THEN x ELSE s.values[i]])

\* s.dropna()
dropna(s) ==
    LET keep == SelectSeq([i \in 1..SLen(s) |-> i], LAMBDA i : ~IsNaN(s.values[i]))
    IN  Series([j \in 1..Len(keep) |-> s.index[keep[j]]],
               [j \in 1..Len(keep) |-> s.values[keep[j]]])

\* s.reindex(idx): values looked up by label, NaN for a label s does not have.
reindex(s, idx) ==
    Series(idx,
           [j \in 1..Len(idx) |->
              IF \E i \in 1..SLen(s) : s.index[i] = idx[j]
              THEN s.values[CHOOSE i \in 1..SLen(s) : s.index[i] = idx[j]]
              ELSE NaN])

\* Elementwise arithmetic of two Series with the same index.
SMul(a, b) == Series(a.index, [i \in 1..SLen(a) |-> Mul(a.values[i], b.values[i])])
SSub(a, b) == Series(a.index, [i \in 1..SLen(a) |-> Sub(a.values[i], b.values[i])])
SDiv(a, b) == Series(a.index, [i \in 1..SLen(a) |-> Div(a.values[i], b.values[i])])
\* Series with a scalar.
SScale(a, x) == Series(a.index, [i \in 1..SLen(a) |-> Mul(a.values[i], x)])
SPlus(a, x) == Series(a.index, [i \in 1..SLen(a) |-> Add(a.values[i], x)])
SAbs(a) == Series(a.index, [i \in 1..SLen(a) |-> AbsN(a.values[i])])
SSSq(a) == Series(a.index, [i \in 1..SLen(a) |-> SSq(a.values[i])])

\* s.diff(): s - s.shift(1)
diff(s) == SSub(s, shift(s, 1))

\* s.cumprod(): running product that skips NaN; a NaN entry stays NaN.
RECURSIVE ProdUpTo(_, _)
ProdUpTo(vals, i) ==
    IF i = 0 THEN I(1)
    ELSE IF IsNaN(vals[i]) THEN ProdUpTo(vals, i - 1)
    ELSE Mul(ProdUpTo(vals, i - 1), vals[i])
cumprod(s) ==
    Series(s.index,
           [i \in 1..SLen(s) |-> IF IsNaN(s.values[i]) THEN NaN ELSE ProdUpTo(s.values, i)])

\* Sum of vals[lo..hi]; a NaN in the range makes it NaN.
RECURSIVE SumRange(_, _, _)
SumRange(vals, lo, hi) ==
    IF hi < lo THEN I(0) ELSE Add(SumRange(vals, lo, hi - 1), vals[hi])

\* s.rolling(window=w).mean(): NaN until w observations are available, and NaN
\* for a window that holds a NaN or an infinite value (pandas takes inf as
\* missing in a rolling window).
WindowMean(vals, i, w) == Div(SumRange(vals, i - w + 1, i), I(w))
rolling_mean(s, w) ==
    Series(s.index,
           [i \in 1..SLen(s) |->
              IF i < w \/ (\E j \in (i - w + 1)..i : s.values[j].d = 0) THEN NaN
              ELSE WindowMean(s.values, i, w)])

\* s.rolling(window=w).std(), ddof = 1, as its square (the sample variance):
\* NaN until w observations are available, and NaN for w = 1.
RECURSIVE SumSqDev(_, _, _, _)
SumSqDev(vals, m, lo, hi) ==
    IF hi < lo THEN I(0)
    ELSE Add(SumSqDev(vals, m, lo, hi - 1),
             Mul(Sub(vals[hi], m), Sub(vals[hi], m)))
\* rolling std as it would be with ddof = 0 (population variance)
rolling_std_population(s, w) ==
    Series(s.index,
           [i \in 1..SLen(s) |->
              IF i < w THEN NaN
              ELSE Div(SumSqDev(s.values, WindowMean(s.values, i, w), i - w + 1, i),
                       I(w))])

rolling_std(s, w) ==
    Series(s.index,
           [i \in 1..SLen(s) |->
              IF i < w THEN NaN
              ELSE Div(SumSqDev(s.values, WindowMean(s.values, i, w), i - w + 1, i),
                       I(w - 1))])

\* s.pct_change(periods=k): s / s.shift(k) - 1
pct_change(s, k) == SPlus(SDiv(s, shift(s, k)), I(-1))

\* Boolean masks: a > b and a <= b of two Series, a > x, a <= x, a < x of a Series
\* and a scalar.  A comparison with NaN is False.
MaskGt(a, b) == [i \in 1..SLen(a) |-> Gt(a.values[i], b.values[i])] \o <<>>
MaskLe(a, b) == [i \in 1..SLen(a) |-> Le(a.values[i], b.values[i])] \o <<>>
MaskGtScalar(a, x) == [i \in 1..SLen(a) |-> Gt(a.values[i], x)] \o <<>>
MaskLeScalar(a, x) == [i \in 1..SLen(a) |-> Le(a.values[i], x)] \o <<>>
MaskLtScalar(a, x) == [i \in 1..SLen(a) |-> Lt(a.values[i], x)] \o <<>>

\* signals[mask] = x
SetWhere(s, mask, x) ==
    Series(s.index, [i \in 1..SLen(s) |-> IF mask[i] THEN x ELSE s.values[i]])

(***************************************************************************)
(* Strategies                                                              *)
(***************************************************************************)
\* MovingAverageCrossover.generate_signals: the intermediate series
MA_ma_fast(fast, data) == rolling_mean(data, fast)
MA_ma_slow(slow, data) == rolling_mean(data, slow)

\* The crossover signals as they would be with the tie given to the buy side
MA_generate_signals_tiebuy(fast, slow, data) ==
    LET ma_fast == MA_ma_fast(fast, data)
        ma_slow == MA_ma_slow(slow, data)
        signals0 == Const(data.index, I(0))
        buy == MaskLe(ma_slow, ma_fast)
        sell == MaskGt(ma_slow, ma_fast)
        signals1 == SetWhere(signals0, buy, I(1))
    IN  SetWhere(signals1, sell, I(-1))

\* MovingAverageCrossover.generate_signals: the returned signal series
MA_generate_signals(fast, slow, data) ==
    LET ma_fast == MA_ma_fast(fast, data)
        ma_slow == MA_ma_slow(slow, data)
        signals0 == Const(data.index, I(0))
        buy == MaskGt(ma_fast, ma_slow)
        sell == MaskLe(ma_fast, ma_slow)
        signals1 == SetWhere(signals0, buy, I(1))
    IN  SetWhere(signals1, sell, I(-1))

\* MeanReversionZScore.generate_signals: the z-score, as its signed square
MR_zscore(window, data) ==
    SDiv(SSSq(SSub(data, rolling_mean(data, window))), rolling_std(data, window))

\* MeanReversionZScore.generate_signals: the returned signal series
MR_generate_signals(window, threshold, data) ==
    LET zscore == MR_zscore(window, data)
        signals0 == Const(data.index, I(0))
        overbought == MaskGtScalar(zscore, SSq(threshold))
        oversold == MaskLtScalar(zscore, SSq(Neg(threshold)))
        signals1 == SetWhere(signals0, overbought, I(-1))
    IN  SetWhere(signals1, oversold, I(1))

\* MomentumStrategy.generate_signals: the momentum series
Mom_momentum(lookback, data) == pct_change(data, lookback)

\* The momentum signals as they would be if the series started as all sell
Mom_generate_signals_sellfirst(lookback, data) ==
    LET momentum == Mom_momentum(lookback, data)
        signals0 == Const(data.index, I(-1))
        buy == MaskGtScalar(momentum, I(0))
        sell == MaskLeScalar(momentum, I(0))
        signals1 == SetWhere(signals0, buy, I(1))
    IN  SetWhere(signals1, sell, I(-1))

\* The momentum signals as they would be with zero momentum left neutral
Mom_generate_signals_zeroflat(lookback, data) ==
    LET momentum == Mom_momentum(lookback, data)
        signals0 == Const(data.index, I(0))
        buy == MaskGtScalar(momentum, I(0))
        sell == MaskLtScalar(momentum, I(0))
        signals1 == SetWhere(signals0, buy, I(1))
    IN  SetWhere(signals1, sell, I(-1))

\* MomentumStrategy.generate_signals: the returned signal series
Mom_generate_signals(lookback, data) ==
    LET momentum == Mom_momentum(lookback, data)
        signals0 == Const(data.index, I(0))
        buy == MaskGtScalar(momentum, I(0))
        sell == MaskLeScalar(momentum, I(0))
        signals1 == SetWhere(signals0, buy, I(1))
    IN  SetWhere(signals1, sell, I(-1))

\* get_positions as it would be without the fillna(0): the first position stays NaN
get_positions_nofill(signals) == shift(signals, 1)
\* get_positions as it would be without the one-period lag: today's signal is held today
get_positions_nolag(signals) == fillna(shift(signals, 0), I(0))

\* BaseStrategy.get_positions
get_positions(signals) == fillna(shift(signals, 1), I(0))

\* A strategy object: its parameters (0 where the class has none).
Params(kind, fast, slow, window, threshold, lookback) ==
    [fast |-> fast, slow |-> slow, window |-> window, threshold |-> threshold,
     lookback |-> lookback, kind |-> kind]
MAParams(fast, slow) == Params("MovingAverageCrossover", fast, slow, 0, I(0), 0)
MRParams(window, threshold) == Params("MeanReversionZScore", 0, 0, window, threshold, 0)
MomParams(lookback) == Params("MomentumStrategy", 0, 0, 0, I(0), lookback)

\* generate_signals as it would be if the signals were built on the timestamps
\* where the strategy's first intermediate series is defined
generate_signals_defined(p, data) ==
    LET first == IF p.kind = "MovingAverageCrossover" THEN MA_ma_fast(p.fast, data)
                 ELSE IF p.kind = "MeanReversionZScore" THEN rolling_mean(data, p.window)
                 ELSE Mom_momentum(p.lookback, data)
        full == IF p.kind = "MovingAverageCrossover"
                THEN MA_generate_signals(p.fast, p.slow, data)
                ELSE IF p.kind = "MeanReversionZScore"
                     THEN MR_generate_signals(p.window, p.threshold, data)
                ELSE Mom_generate_signals(p.lookback, data)
    IN  reindex(full, dropna(first).index)

\* strategy.generate_signals(data), dispatched on the class
generate_signals(p, data) ==
    IF p.kind = "MovingAverageCrossover" THEN MA_generate_signals(p.fast, p.slow, data)
    ELSE IF p.kind = "MeanReversionZScore"
         THEN MR_generate_signals(p.window, p.threshold, data)
    ELSE Mom_generate_signals(p.lookback, data)

\* The intermediate series generate_signals leaves on the strategy object.
intermediates(p, data) ==
    IF p.kind = "MovingAverageCrossover"
    THEN <<MA_ma_fast(p.fast, data), MA_ma_slow(p.slow, data)>>
    ELSE IF p.kind = "MeanReversionZScore"
         THEN <<rolling_mean(data, p.window), rolling_std(data, p.window),
                MR_zscore(p.window, data)>>
    ELSE <<Mom_momentum(p.lookback, data)>>

\* Series.ffill(): a missing value takes the last value before it, if any.
RECURSIVE LastDefinedUpTo(_, _)
LastDefinedUpTo(vals, i) ==
    IF i = 0 THEN NaN
    ELSE IF IsNaN(vals[i]) THEN LastDefinedUpTo(vals, i - 1) ELSE vals[i]
ffill(s) == Series(s.index, [i \in 1..SLen(s) |-> LastDefinedUpTo(s.values, i)])

\* Series.bfill(): a missing value takes the first value after it, if any.
RECURSIVE FirstDefinedFrom(_, _)
FirstDefinedFrom(vals, i) ==
    IF i > Len(vals) THEN NaN
    ELSE IF IsNaN(vals[i]) THEN FirstDefinedFrom(vals, i + 1) ELSE vals[i]
bfill(s) == Series(s.index, [i \in 1..SLen(s) |-> FirstDefinedFrom(s.values, i)])

(***************************************************************************)
(* DataCollector.calculate_returns(method='simple')                        *)
(***************************************************************************)
calculate_returns(price_data) == dropna(pct_change(price_data, 1))

(***************************************************************************)
(* Backtester.run: the series it derives                                   *)
(***************************************************************************)
\* the alignment as it would be without the fillna(0)
run_positions_nofill(positions, returns_series) ==
    reindex(positions, returns_series.index)

\* the alignment as it would be by place in the series instead of by timestamp
run_positions_byplace(positions, returns_series) ==
    Series(returns_series.index,
           [j \in 1..SLen(returns_series) |->
              IF j <= SLen(positions) THEN positions.values[j] ELSE I(0)])

\* positions.reindex(returns_series.index).fillna(0)
run_positions(positions, returns_series) ==
    fillna(reindex(positions, returns_series.index), I(0))

\* trades = positions.diff().abs()
run_trades(positions) == SAbs(diff(positions))

\* strategy_returns = positions * returns_series - trades * transaction_cost
run_strategy_returns(positions, returns_series, cost) ==
    SSub(SMul(positions, returns_series), SScale(run_trades(positions), cost))

\* cumulative_returns = (1 + strategy_returns).cumprod()
run_cumulative_returns(strategy_returns) == cumprod(SPlus(strategy_returns, I(1)))

\* The benchmark as it would be as the running product of the returns themselves
run_buy_hold_cumulative_unseeded(returns_series) == cumprod(returns_series)

\* buy_hold_cumulative = (1 + returns_series).cumprod()
run_buy_hold_cumulative(returns_series) == cumprod(SPlus(returns_series, I(1)))

(***************************************************************************)
(* Backtester._calculate_metrics                                           *)
(***************************************************************************)
\* iloc[-1] as it would be if it took the first entry
last_asfirst(s) == s.values[1]

\* s.iloc[-1] of a Series that is not empty
last(s) == s.values[SLen(s)]

\* s.mean(): NaN entries are skipped; NaN when nothing is left.
mean(s) ==
    LET x == dropna(s).values
    IN  IF Len(x) = 0 THEN NaN ELSE Div(SumRange(x, 1, Len(x)), I(Len(x)))

\* The rationals stand for doubles, and one place reads a double against 0
\* exactly: the guard `returns.std() > 0`.  pandas takes the variance in two
\* passes, avg = sum / count and then the sum of (avg - x) ** 2.  For count
\* observations that are all the same double x, avg is x again only when
\* ((x + x) + ... + x) / count rounds back to x.  InexactMeans lists <<x, count>>
\* where it does not, x ranging over the net returns this module's prices,
\* market returns and cost rates give (each of them one double, x = position *
\* return - trades * rate as line 73-78 compute it) and count over 2..5:
\* 0.1 + 0.1 + 0.1 is 0.30000000000000004 and a third of it
\* 0.10000000000000002, while three times 0.3 gives 0.3 back, and so do two of
\* anything and all sums of halves and integers.
\* A rational names the double the code holds, not the double nearest to it:
\* 1/3 is the short position on the price move 3 -> 2, -(fl(2/3) - 1) =
\* 0.33333333333333337, of which three average to 0.3333333333333333; the
\* double fl(1/3), which three of average exactly, is no net return here.
InexactMeans ==
    {<<R(-13, 15), 5>>, <<R(-7, 10), 3>>, <<R(-2, 3), 3>>, <<R(-13, 30), 5>>,
     <<R(-1, 3), 3>>, <<R(-1, 5), 3>>, <<R(-1, 10), 3>>, <<R(1, 10), 3>>,
     <<R(7, 30), 5>>, <<R(1, 3), 3>>, <<R(2, 5), 3>>, <<R(7, 15), 5>>,
     <<R(2, 3), 3>>, <<R(4, 5), 3>>, <<R(19, 10), 3>>}

\* The variance such observations have as doubles: positive, of the order of
\* the square of the last bit of x, below every rational of this module.  It is
\* kept as the mark eps, and a rational q times eps ** k as q with the field
\* eps |-> k.
Residue == [n |-> 1, d |-> 1, eps |-> 1]

\* s.std(), ddof = 1, as its square (the sample variance): NaN entries are
\* skipped; NaN with fewer than two observations; the rounding residue for
\* equal observations whose mean is inexact.
std(s) ==
    LET x == dropna(s).values
        variance ==
            IF Len(x) < 2 THEN NaN
            ELSE Div(SumSqDev(x, Div(SumRange(x, 1, Len(x)), I(Len(x))), 1, Len(x)),
                     I(Len(x) - 1))
    IN  IF variance = I(0) /\ <<x[1], Len(x)>> \in InexactMeans
        THEN Residue
        ELSE variance

\* s.cummax(): running maximum that skips NaN; a NaN entry stays NaN.
RECURSIVE MaxUpTo(_, _)
MaxUpTo(vals, i) ==
    IF i = 0 THEN NaN
    ELSE LET m == MaxUpTo(vals, i - 1)
         IN  IF IsNaN(vals[i]) THEN m
             ELSE IF IsNaN(m) \/ Gt(vals[i], m) THEN vals[i] ELSE m
cummax(s) ==
    Series(s.index,
           [i \in 1..SLen(s) |-> IF IsNaN(s.values[i]) THEN NaN ELSE MaxUpTo(s.values, i)])

\* s.min(): NaN entries are skipped; NaN when nothing is left.
RECURSIVE MinUpTo(_, _)
MinUpTo(vals, i) ==
    IF i = 0 THEN NaN
    ELSE LET m == MinUpTo(vals, i - 1)
         IN  IF IsNaN(vals[i]) THEN m
             ELSE IF IsNaN(m) \/ Lt(vals[i], m) THEN vals[i] ELSE m
min(s) == MinUpTo(s.values, SLen(s))

\* (mask).sum() and s[mask] of boolean masks
MaskNeScalar(a, x) == [i \in 1..SLen(a) |-> Ne(a.values[i], x)] \o <<>>
MaskCount(mask) == Cardinality({i \in 1..Len(mask) : mask[i]})
Where(s, mask) ==
    LET keep == SelectSeq([i \in 1..SLen(s) |-> i], LAMBDA i : mask[i])
    IN  Series([j \in 1..Len(keep) |-> s.index[keep[j]]],
               [j \in 1..Len(keep) |-> s.values[keep[j]]])

\* The annualization constant of n_years = n_days / 252.
TradingDays == 252

\* x ** y - 1 for a numpy float x and a positive exponent y, kept as its base
\* and exponent.  The powers numpy gives exactly are kept with the exponent 1,
\* [base |-> b, exp |-> 1] being the number b - 1: NaN for x NaN and for a
\* negative x with an exponent that is not a whole number, 0 for x = 1, -1 for
\* x = 0; a negative x with an even exponent has the power of -x, and -1 with
\* an odd exponent gives -2; an infinite x gives inf, or -inf when x is -inf
\* and the exponent an odd whole number.  (252 / n_days is whole as a double
\* exactly when it is as a rational.)
PowZero == [base |-> I(1), exp |-> I(1)]
PowMinusOne(x, y) ==
    IF IsNaN(x) \/ (Lt(x, I(0)) /\ x.d > 0 /\ y.d # 1) THEN [base |-> NaN, exp |-> I(1)]
    ELSE LET odd == y.d = 1 /\ y.n % 2 = 1
             b == IF Lt(x, I(0)) /\ ~odd THEN AbsN(x) ELSE x
         IN  [base |-> b, exp |-> IF AbsN(x) \in {I(0), I(1)} \/ x.d = 0 THEN I(1) ELSE y]

\* A quotient c / x of such a power c and a float x that is not 0, kept as the
\* two; as the number it is, with the denominator 1, when c is an exact power:
\* 0 when c is 0, NaN when either is NaN.
QuotZero == [num |-> PowZero, den |-> I(1)]
PowOver(c, x) ==
    IF IsNaN(c.base) \/ IsNaN(x) THEN [num |-> [base |-> NaN, exp |-> I(1)], den |-> I(1)]
    ELSE IF c.exp = I(1) /\ x.d > 0
         THEN [num |-> [base |-> Add(Div(Sub(c.base, I(1)), x), I(1)), exp |-> I(1)],
               den |-> I(1)]
    ELSE [num |-> c, den |-> x]

\* cagr = (1 + total_return) ** (1 / n_years) - 1 if n_years > 0 else 0
metrics_cagr(total_return, n_days) ==
    IF n_days > 0
    THEN PowMinusOne(Add(I(1), total_return), R(TradingDays, n_days))
    ELSE PowZero

\* volatility = returns.std() * np.sqrt(252), as its square
metrics_volatility(returns_std) ==
    IF returns_std = Residue
    THEN [n |-> TradingDays, d |-> 1, eps |-> 1]
    ELSE Mul(returns_std, I(TradingDays))

\* sharpe = (returns.mean() * 252) / (returns.std() * np.sqrt(252))
\*          if returns.std() > 0 else 0, as its signed square
\*          sgn(mean) * mean^2 * 252 / std^2.  A rounding residue is above 0:
\*          the quotient is then sgn(mean) * mean^2 * 252 / eps.
metrics_sharpe(returns_mean, returns_std) ==
    LET q == Mul(SSq(returns_mean), I(TradingDays))
    IN  IF returns_std = Residue
        THEN [n |-> q.n, d |-> q.d, eps |-> -1]
        ELSE IF Gt(returns_std, I(0))
        THEN Mul(Div(SSq(returns_mean), returns_std), I(TradingDays))
        ELSE I(0)

\* max_drawdown = ((cum_returns - rolling_max) / rolling_max).min()
metrics_max_drawdown(cum_returns) ==
    LET rolling_max == cummax(cum_returns)
    IN  min(SDiv(SSub(cum_returns, rolling_max), rolling_max))

\* calmar = cagr / abs(max_drawdown) if max_drawdown != 0 else 0
metrics_calmar(cagr, max_drawdown) ==
    IF Ne(max_drawdown, I(0)) THEN PowOver(cagr, AbsN(max_drawdown)) ELSE QuotZero

\* The win rate as it would be without the guard on total_trades
metrics_win_rate_noguard(wins, total_trades) == Div(I(wins), I(total_trades))

\* win_rate = wins / total_trades if total_trades > 0 else 0
metrics_win_rate(wins, total_trades) ==
    IF total_trades > 0 THEN Div(I(wins), I(total_trades)) ELSE I(0)

\* avg_win = returns[returns > 0].mean() if (returns > 0).sum() > 0 else 0
metrics_avg_win(returns) ==
    IF MaskCount(MaskGtScalar(returns, I(0))) > 0
    THEN mean(Where(returns, MaskGtScalar(returns, I(0))))
    ELSE I(0)

\* avg_loss = returns[returns < 0].mean() if (returns < 0).sum() > 0 else 0
metrics_avg_loss(returns) ==
    IF MaskCount(MaskLtScalar(returns, I(0))) > 0
    THEN mean(Where(returns, MaskLtScalar(returns, I(0))))
    ELSE I(0)

\* win_loss_ratio = abs(avg_win / avg_loss) if avg_loss != 0 else 0
metrics_win_loss_ratio(avg_win, avg_loss) ==
    IF Ne(avg_loss, I(0)) THEN AbsN(Div(avg_win, avg_loss)) ELSE I(0)

\* The metrics table: the dict _calculate_metrics returns, for a bundle whose
\* cumulative_returns is not empty.  CAGR is a power and 'Calmar Ratio' a quotient
\* kept as written; Volatility and 'Sharpe Ratio' are kept as signed squares.
calculate_metrics(bundle) ==
    LET returns == dropna(bundle.strategy_returns)
        cum_returns == bundle.cumulative_returns
        total_return == Sub(last(cum_returns), I(1))
        n_days == SLen(returns)
        returns_std == std(returns)
        cagr == metrics_cagr(total_return, n_days)
        max_drawdown == metrics_max_drawdown(cum_returns)
        wins == MaskCount(MaskGtScalar(returns, I(0)))
        total_trades == MaskCount(MaskNeScalar(returns, I(0)))
        avg_win == metrics_avg_win(returns)
        avg_loss == metrics_avg_loss(returns)
        buy_hold_return == Sub(last(bundle.buy_hold_cumulative), I(1))
    IN  [TotalReturn |-> total_return,
         CAGR |-> cagr,
         Volatility |-> metrics_volatility(returns_std),
         SharpeRatio |-> metrics_sharpe(mean(returns), returns_std),
         MaxDrawdown |-> max_drawdown,
         CalmarRatio |-> metrics_calmar(cagr, max_drawdown),
         WinRate |-> metrics_win_rate(wins, total_trades),
         TotalTrades |-> total_trades,
         AvgWin |-> avg_win,
         AvgLoss |-> avg_loss,
         WinLossRatio |-> metrics_win_loss_ratio(avg_win, avg_loss),
         BuyHoldReturn |-> buy_hold_return,
         Outperformance |-> Sub(total_return, buy_hold_return)]

\* The place of the metrics table in a bundle that has no 'metrics' key.
NoMetrics ==
    [TotalReturn |-> NaN, CAGR |-> PowZero, Volatility |-> NaN, SharpeRatio |-> NaN,
     MaxDrawdown |-> NaN, CalmarRatio |-> QuotZero, WinRate |-> NaN, TotalTrades |-> 0,
     AvgWin |-> NaN, AvgLoss |-> NaN, WinLossRatio |-> NaN, BuyHoldReturn |-> NaN,
     Outperformance |-> NaN]

(***************************************************************************)
(* State                                                                   *)
(***************************************************************************)
VARIABLES
    price_data,        \* the price Series of the caller
    returns_data,      \* the market-return Series of the caller
    transaction_cost,  \* Backtester.transaction_cost
    strategy,          \* the strategy object: parameters and cached series
    results,           \* Backtester.results
    signals_arg,       \* the argument of a direct BaseStrategy.get_positions call
    pc,                \* the caller: "ready", then "returned" or "raised"
    heap,              \* the dict objects Backtester.run has made, in order
    results_ref,       \* the dict Backtester.results refers to (0: the initial {})
    all_results,       \* main.py's all_results: references to returned dicts
    thread,            \* the local state of each of two parallel run calls
    gui                \* TradingModelGUI: prices, returns, the download thread

\* What the callers of several runs and the GUI add to the state of one run.
callers == <<heap, results_ref, all_results, thread, gui>>

vars == <<price_data, returns_data, transaction_cost, strategy, results,
          signals_arg, pc, callers>>

\* Strictly increasing label sequences of length k over lo..hi.
IncreasingSeqs(lo, hi, k) ==
    {idx \in [1..k -> lo..hi] : \A i \in 1..(k - 1) : idx[i] < idx[i + 1]}

\* Price series: 1..MaxLen observations at timestamps 1..n, positive prices.
PriceValues == {I(v) : v \in 1..MaxPrice}
PriceSeriesOfLen(k) == {Series([i \in 1..k |-> i], vals) : vals \in [1..k -> PriceValues]}
PriceSeriesSet == UNION {PriceSeriesOfLen(k) : k \in 1..MaxLen}

CostRates == {I(0), R(1, 10)}

Windows == 1..MaxWin
Thresholds == {I(0), R(3, 4)}

\* Signal series for a direct get_positions call: any labels, values -1, 0, +1.
SignalValues == {I(-1), I(0), I(1)}
SignalSeriesSet ==
    UNION {{Series(idx, vals) :
               idx \in IncreasingSeqs(1, MaxLen + 1, k), vals \in [1..k -> SignalValues]} :
           k \in 0..MaxLen}

\* A strategy object after __init__.
NewStrategy(p) ==
    [signals |-> EmptySeries, intermediates |-> <<>>, positions |-> EmptySeries,
     params |-> p, set |-> {}]
NoParams == Params("BaseStrategy", 0, 0, 0, I(0), 0)

\* Backtester.results = {}
NoResults ==
    [signals |-> EmptySeries, price_data |-> EmptySeries, positions |-> EmptySeries,
     strategy_returns |-> EmptySeries,
     cumulative_returns |-> EmptySeries, buy_hold_cumulative |-> EmptySeries,
     keys |-> {}, strategy_name |-> NoParams,
     market_returns |-> EmptySeries, metrics |-> NoMetrics]

\* The bundle Backtester.run stores in self.results before the metrics.
run_bundle(p, price_series, returns_series, cost) ==
    LET signals == generate_signals(p, price_series)
        positions == run_positions(get_positions(signals), returns_series)
        strategy_returns == run_strategy_returns(positions, returns_series, cost)
    IN  [signals |-> signals, price_data |-> price_series, positions |-> positions,
         strategy_returns |-> strategy_returns,
         cumulative_returns |-> run_cumulative_returns(strategy_returns),
         buy_hold_cumulative |-> run_buy_hold_cumulative(returns_series),
         keys |-> {"strategy_name", "signals", "positions", "strategy_returns",
                  "cumulative_returns", "buy_hold_cumulative", "price_data",
                  "market_returns"}, strategy_name |-> p,
         market_returns |-> returns_series, metrics |-> NoMetrics]

\* A run call that has not started: its strategy object, what _calculate_metrics
\* has read from self.results so far, and the dict it returned (0: none yet).
Threads == {1, 2}
NoThread ==
    [strategy |-> NewStrategy(NoParams), pc |-> "idle", local |-> NoResults, ret |-> 0]

\* TradingModelGUI after __init__: self.prices = None, self.returns = None.  The
\* series are kept with the number of the download that made them (0: None)
\* and, for the prices, whether clean_data has made them; so are the series
\* the backtest thread has read.  Of each download thread, dl_pc is the place
\* (the line of _download_data_thread and the access it is about to make), dl_c
\* the collector it has loaded and dl_v the value it holds; col_prices and
\* col_returns are the price_data and returns attributes of each collector.
\* NoValue is None or a missing attribute.  collector is the collector
\* self.collector refers to (0: None), cache_dir whether the cache directory
\* exists.
NoValue == <<EmptySeries, 0, FALSE>>
NoGui ==
    [returns |-> EmptySeries, prices |-> EmptySeries, prices_of |-> 0,
     returns_of |-> 0, cleaned |-> FALSE, downloads |-> 0, dl_pc |-> <<>>,
     dl_c |-> <<>>, dl_v |-> <<>>, col_prices |-> <<>>, col_returns |-> <<>>,
     fill_method |-> "pad",
     read_prices_of |-> 0, read_cleaned |-> FALSE, read_returns_of |-> 0,
     collector |-> 0, cache_dir |-> FALSE]

\* A Backtester that has made no dict and whose caller has collected none.
NoBundles ==
    /\ heap = <<>>
    /\ results_ref = 0
    /\ all_results = <<>>

\* One caller of one Backtester: no thread making a run call, no GUI.
NoCallers ==
    /\ NoBundles
    /\ thread = <<>>
    /\ gui = <<>>

\* _calculate_metrics raises IndexError on cum_returns.iloc[-1] for an empty series.
metrics_raise(bundle) == SLen(bundle.cumulative_returns) = 0

(***************************************************************************)
(* Spec: one backtest.  The caller holds prices and market returns, makes  *)
(* a Backtester and a strategy object and calls Backtester.run once        *)
(* (gui_app.run_backtest, one iteration of the loop of main.py).           *)
(***************************************************************************)
Init ==
    /\ price_data \in PriceSeriesSet
    \* the collector's returns, or market returns whose timestamps are not the
    \* price timestamps (one before the first price, one after the last, a gap)
    /\ returns_data \in {calculate_returns(price_data),
                         Series(<<0, 2>>, <<R(1, 2), R(1, 2)>>),
                         Series(<<2, MaxLen + 1>>, <<R(-1, 2), R(1, 2)>>)}
    /\ transaction_cost \in CostRates
    /\ strategy = NewStrategy(NoParams)
    /\ results = NoResults
    /\ signals_arg = EmptySeries
    /\ pc = "ready"
    /\ NoCallers

\* Backtester.run(strategy, price_data, returns_data), strategy a new object
\* with parameters p.
Run(p) ==
    LET bundle == run_bundle(p, price_data, returns_data, transaction_cost)
    IN  /\ pc = "ready"
        /\ strategy' = [signals |-> bundle.signals,
                        intermediates |-> intermediates(p, price_data),
                        positions |-> get_positions(bundle.signals),
                        params |-> p,
                        set |-> {"signals", "positions", "intermediates"}]
        /\ IF metrics_raise(bundle)
           THEN /\ results' = bundle
                /\ pc' = "raised"
           ELSE /\ results' = [bundle EXCEPT !.keys = @ \cup {"metrics"},
                                             !.metrics = calculate_metrics(bundle)]
                /\ pc' = "returned"
        /\ UNCHANGED <<price_data, returns_data, transaction_cost, signals_arg, callers>>

RunMovingAverage == \E fast \in Windows, slow \in Windows : Run(MAParams(fast, slow))
RunMeanReversion == \E window \in Windows, threshold \in Thresholds :
                        Run(MRParams(window, threshold))
RunMomentum == \E lookback \in Windows : Run(MomParams(lookback))

Next == RunMovingAverage \/ RunMeanReversion \/ RunMomentum

Spec == Init /\ [][Next]_vars

(***************************************************************************)
(* SpecLookAhead: one backtest, as Spec, for the claims about positions    *)
(* alone.  Positions read neither the cost rate nor the values of the      *)
(* market returns, only their timestamps: the cost rate is 0 and the       *)
(* market returns are the collector's or a series on other timestamps.     *)
(***************************************************************************)
InitLookAhead ==
    /\ price_data \in PriceSeriesSet
    /\ returns_data \in {calculate_returns(price_data),
                         Series(<<2, MaxLen + 1>>, <<R(-1, 2), R(1, 2)>>)}
    /\ transaction_cost = I(0)
    /\ strategy = NewStrategy(NoParams)
    /\ results = NoResults
    /\ signals_arg = EmptySeries
    /\ pc = "ready"
    /\ NoCallers

SpecLookAhead == InitLookAhead /\ [][Next]_vars

(***************************************************************************)
(* SpecTrend: one backtest, as Spec, on a trending market.  The prices rise *)
(* or fall by one at every timestamp, so that a strategy holds one position *)
(* after its warm-up; the market returns are any series of values, returns  *)
(* below -1 included, on the price timestamps from the third on.            *)
(***************************************************************************)
TrendSeriesSet ==
    UNION {{Series([i \in 1..k |-> i], [i \in 1..k |-> I(i)]),
            Series([i \in 1..k |-> i], [i \in 1..k |-> I(k + 1 - i)])} : k \in 3..MaxLen}

TrendReturnsSet(prices) ==
    {Series([j \in 1..(SLen(prices) - 2) |-> j + 2], vals) :
        vals \in [1..(SLen(prices) - 2) -> {I(-2), R(-1, 2), I(0), R(1, 2)}]}

InitTrend ==
    /\ price_data \in TrendSeriesSet
    /\ returns_data \in TrendReturnsSet(price_data)
    /\ transaction_cost \in CostRates
    /\ strategy = NewStrategy(NoParams)
    /\ results = NoResults
    /\ signals_arg = EmptySeries
    /\ pc = "ready"
    /\ NoCallers

SpecTrend == InitTrend /\ [][Next]_vars

(***************************************************************************)
(* SpecTwice: two backtests in a row on the same Backtester with the same  *)
(* prices, market returns (the collector's, or a steady market at the      *)
(* price timestamps) and cost rate 1/10.  The second                       *)
(* call is made with the strategy object of the first, which carries the   *)
(* series of the first run, or with a new object of the same parameters;   *)
(* Backtester.results holds the dict of the first run when it starts, and  *)
(* heap keeps that dict.  The second call is followed through the          *)
(* attributes it assigns and reads back: the strategy's intermediate       *)
(* series, its signals and positions, and self.results.  pc goes from     *)
(* "returned" or "raised" through "again_cached", "again_signals",         *)
(* "again_positions" and "again_stored" to "returned_again" or             *)
(* "raised_again".                                                         *)
(***************************************************************************)
InitTwice ==
    /\ price_data \in PriceSeriesSet
    /\ returns_data \in {calculate_returns(price_data), Const(price_data.index, R(1, 2))}
    /\ transaction_cost = R(1, 10)
    /\ strategy = NewStrategy(NoParams)
    /\ results = NoResults
    /\ signals_arg = EmptySeries
    /\ pc = "ready"
    /\ NoCallers

\* Backtester.run(strategy, price_data, returns_data) once more, with the
\* strategy object of the first run or (fresh) a new one of the same class and
\* parameters: engine.py:64 calls generate_signals, which first assigns the
\* series it computes from the data alone (moving_average.py:59-60,
\* mean_reversion.py:60-61, momentum.py:55) over what the object holds.
RunAgain(fresh) ==
    LET p == strategy.params
        old == IF fresh THEN NewStrategy(p) ELSE strategy
        cached ==
            IF p.kind = "MovingAverageCrossover"
            THEN <<MA_ma_fast(p.fast, price_data), MA_ma_slow(p.slow, price_data)>>
            ELSE IF p.kind = "MeanReversionZScore"
                 THEN <<rolling_mean(price_data, p.window),
                        rolling_std(price_data, p.window)>>
                      \o SubSeq(old.intermediates, 3, Len(old.intermediates))
            ELSE <<Mom_momentum(p.lookback, price_data)>>
    IN  /\ pc \in {"returned", "raised"}
        /\ strategy' = [old EXCEPT !.intermediates = cached,
                                   !.set = @ \cup {"intermediates"}]
        /\ heap' = <<results>>
        /\ pc' = "again_cached"
        /\ UNCHANGED <<price_data, returns_data, transaction_cost, results, signals_arg,
                       results_ref, all_results, thread, gui>>

\* generate_signals, the rest: the signals are a new Series of 0 on data.index,
\* set where the series the object holds compare (moving_average.py:63-67,
\* mean_reversion.py:64-71 with self.zscore assigned from self.rolling_mean and
\* self.rolling_std, momentum.py:58-62), and assigned to self.signals.
RunAgainSignals ==
    LET p == strategy.params
        c == strategy.intermediates
        signals0 == Const(price_data.index, I(0))
        zscore == SDiv(SSSq(SSub(price_data, c[1])), c[2])
        signals ==
            IF p.kind = "MovingAverageCrossover"
            THEN SetWhere(SetWhere(signals0, MaskGt(c[1], c[2]), I(1)),
                          MaskLe(c[1], c[2]), I(-1))
            ELSE IF p.kind = "MeanReversionZScore"
                 THEN SetWhere(SetWhere(signals0, MaskGtScalar(zscore, SSq(p.threshold)),
                                        I(-1)),
                               MaskLtScalar(zscore, SSq(Neg(p.threshold))), I(1))
            ELSE SetWhere(SetWhere(signals0, MaskGtScalar(c[1], I(0)), I(1)),
                          MaskLeScalar(c[1], I(0)), I(-1))
    IN  /\ pc = "again_cached"
        /\ strategy' = [strategy EXCEPT
               !.signals = signals,
               !.intermediates = IF p.kind = "MeanReversionZScore"
                                 THEN <<c[1], c[2], zscore>> ELSE c,
               !.set = @ \cup {"signals"}]
        /\ pc' = "again_signals"
        /\ UNCHANGED <<price_data, returns_data, transaction_cost, results, signals_arg,
                       callers>>

\* The second run's get_positions as it would be if the position the object
\* held at the end of the run before were carried into the first timestamp
RunAgainPositions_carrying ==
    LET held == IF SLen(strategy.positions) > 0 THEN last(strategy.positions) ELSE I(0)
    IN  /\ pc = "again_signals"
        /\ strategy' = [strategy EXCEPT
               !.positions = fillna(shift(strategy.signals, 1), held),
               !.set = @ \cup {"positions"}]
        /\ pc' = "again_positions"
        /\ UNCHANGED <<price_data, returns_data, transaction_cost, results, signals_arg,
                       callers>>

\* engine.py:67, base.py:65: get_positions on the signals generate_signals
\* returned, the Series self.signals refers to; self.positions is assigned.
RunAgainPositions ==
    /\ pc = "again_signals"
    /\ strategy' = [strategy EXCEPT !.positions = get_positions(strategy.signals),
                                    !.set = @ \cup {"positions"}]
    /\ pc' = "again_positions"
    /\ UNCHANGED <<price_data, returns_data, transaction_cost, results, signals_arg,
                   callers>>

\* engine.py:70-96: the positions get_positions returned (self.positions of the
\* strategy) are aligned, the net returns and the curves computed, and
\* self.results is assigned a new dict.
RunAgainStore ==
    LET positions == run_positions(strategy.positions, returns_data)
        strategy_returns == run_strategy_returns(positions, returns_data, transaction_cost)
    IN  /\ pc = "again_positions"
        /\ results' = [NoResults EXCEPT
               !.signals = strategy.signals,
               !.price_data = price_data,
               !.positions = positions,
               !.strategy_returns = strategy_returns,
               !.cumulative_returns = run_cumulative_returns(strategy_returns),
               !.buy_hold_cumulative = run_buy_hold_cumulative(returns_data),
               !.keys = {"strategy_name", "signals", "positions", "strategy_returns",
                         "cumulative_returns", "buy_hold_cumulative", "price_data",
                         "market_returns"},
               !.strategy_name = strategy.params,
               !.market_returns = returns_data]
        /\ pc' = "again_stored"
        /\ UNCHANGED <<price_data, returns_data, transaction_cost, strategy, signals_arg,
                       callers>>

\* engine.py:99-105: _calculate_metrics reads the series of self.results, and
\* the metrics are put in that dict; IndexError on an empty equity curve.
RunAgainMetrics ==
    /\ pc = "again_stored"
    /\ IF metrics_raise(results)
       THEN /\ pc' = "raised_again"
            /\ UNCHANGED results
       ELSE /\ results' = [results EXCEPT !.keys = @ \cup {"metrics"},
                                          !.metrics = calculate_metrics(results)]
            /\ pc' = "returned_again"
    /\ UNCHANGED <<price_data, returns_data, transaction_cost, strategy, signals_arg,
                   callers>>

NextTwice ==
    \/ Next
    \/ \E fresh \in BOOLEAN : RunAgain(fresh)
    \/ RunAgainSignals
    \/ RunAgainPositions
    \/ RunAgainStore
    \/ RunAgainMetrics

SpecTwice == InitTwice /\ [][NextTwice]_vars

(***************************************************************************)
(* SpecSignals: strategy.generate_signals(prices) called on a new strategy *)
(* object, as the strategy modules do when run as scripts.                 *)
(***************************************************************************)
InitSignals ==
    /\ price_data \in PriceSeriesSet
    /\ returns_data = EmptySeries
    /\ transaction_cost = I(0)
    /\ strategy = NewStrategy(NoParams)
    /\ results = NoResults
    /\ signals_arg = EmptySeries
    /\ pc = "ready"
    /\ NoCallers

GenerateSignals(p) ==
    /\ pc = "ready"
    /\ strategy' = [signals |-> generate_signals(p, price_data),
                    intermediates |-> intermediates(p, price_data),
                    positions |-> EmptySeries,
                    params |-> p,
                    set |-> {"signals", "intermediates"}]
    /\ pc' = "returned"
    /\ UNCHANGED <<price_data, returns_data, transaction_cost, results, signals_arg, callers>>

SignalsMovingAverage ==
    \E fast \in Windows, slow \in Windows : GenerateSignals(MAParams(fast, slow))
SignalsMeanReversion ==
    \E window \in Windows, threshold \in Thresholds :
        GenerateSignals(MRParams(window, threshold))
SignalsMomentum == \E lookback \in Windows : GenerateSignals(MomParams(lookback))

NextSignals == SignalsMovingAverage \/ SignalsMeanReversion \/ SignalsMomentum

SpecSignals == InitSignals /\ [][NextSignals]_vars

(***************************************************************************)
(* SpecPositions: BaseStrategy.get_positions(signals) called directly on   *)
(* any signal series.                                                      *)
(***************************************************************************)
InitPositions ==
    /\ signals_arg \in SignalSeriesSet
    /\ price_data = EmptySeries
    /\ returns_data = EmptySeries
    /\ transaction_cost = I(0)
    /\ strategy = NewStrategy(NoParams)
    /\ results = NoResults
    /\ pc = "ready"
    /\ NoCallers

GetPositions ==
    /\ pc = "ready"
    /\ strategy' = [strategy EXCEPT !.positions = get_positions(signals_arg),
                                    !.set = @ \cup {"positions"}]
    /\ pc' = "returned"
    /\ UNCHANGED <<price_data, returns_data, transaction_cost, results, signals_arg, callers>>

NextPositions == GetPositions

SpecPositions == InitPositions /\ [][NextPositions]_vars

(***************************************************************************)
(* SpecParallel: two Backtester.run calls on the same Backtester, made by  *)
(* two threads with a strategy object each, on the same prices and market  *)
(* returns.  A step of a thread is one access to self.results: the         *)
(* assignment of line 87 (with the work on local series before it), the    *)
(* reads of lines 110, 111 and 148 in _calculate_metrics, the item         *)
(* assignment of line 100 and the read of line 105.                        *)
(***************************************************************************)
InitParallel ==
    /\ price_data \in UNION {PriceSeriesOfLen(k) : k \in 1..(MaxLen - 1)}
    /\ returns_data = calculate_returns(price_data)
    /\ transaction_cost = R(1, 10)
    /\ strategy = NewStrategy(NoParams)
    /\ results = NoResults
    /\ signals_arg = EmptySeries
    /\ pc = "ready"
    /\ NoBundles
    /\ thread = [t \in Threads |-> NoThread]
    /\ gui = <<>>

\* Lines 64-96: the series of the call, a new dict, self.results = the dict.
T_Store(t, p) ==
    LET bundle == run_bundle(p, price_data, returns_data, transaction_cost)
    IN  /\ thread[t].pc = "idle"
        /\ heap' = Append(heap, bundle)
        /\ results_ref' = Len(heap) + 1
        /\ results' = bundle
        /\ thread' = [thread EXCEPT
                         ![t].pc = "stored",
                         ![t].strategy = [signals |-> bundle.signals,
                                          intermediates |-> intermediates(p, price_data),
                                          positions |-> get_positions(bundle.signals),
                                          params |-> p,
                                          set |-> {"signals", "positions", "intermediates"}]]
        /\ UNCHANGED <<price_data, returns_data, transaction_cost, strategy,
                       signals_arg, pc, all_results, gui>>

\* Line 110: returns = self.results['strategy_returns'].dropna()
T_ReadReturns(t) ==
    /\ thread[t].pc = "stored"
    /\ thread' = [thread EXCEPT
                     ![t].pc = "read_returns",
                     ![t].local.strategy_returns = heap[results_ref].strategy_returns]
    /\ UNCHANGED <<price_data, returns_data, transaction_cost, strategy, results,
                   signals_arg, pc, heap, results_ref, all_results, gui>>

\* Lines 111-114: cum_returns = self.results['cumulative_returns'];
\* cum_returns.iloc[-1] raises IndexError on an empty series.
T_ReadCumulative(t) ==
    LET cum_returns == heap[results_ref].cumulative_returns
    IN  /\ thread[t].pc = "read_returns"
        /\ thread' = [thread EXCEPT
                         ![t].pc = IF SLen(cum_returns) = 0 THEN "raised" ELSE "read_cumulative",
                         ![t].local.cumulative_returns = cum_returns]
        /\ UNCHANGED <<price_data, returns_data, transaction_cost, strategy, results,
                       signals_arg, pc, heap, results_ref, all_results, gui>>

\* Lines 148-167: self.results['buy_hold_cumulative'] is read and the metrics
\* table is made of the three series read.
T_ReadBuyHold(t) ==
    LET read == [thread[t].local EXCEPT
                    !.buy_hold_cumulative = heap[results_ref].buy_hold_cumulative]
    IN  /\ thread[t].pc = "read_cumulative"
        /\ thread' = [thread EXCEPT
                         ![t].pc = "computed",
                         ![t].local = [read EXCEPT !.metrics = calculate_metrics(read)]]
        /\ UNCHANGED <<price_data, returns_data, transaction_cost, strategy, results,
                       signals_arg, pc, heap, results_ref, all_results, gui>>

\* Line 100: self.results['metrics'] = metrics
T_SetMetrics(t) ==
    /\ thread[t].pc = "computed"
    /\ heap' = [heap EXCEPT ![results_ref].keys = @ \cup {"metrics"},
                            ![results_ref].metrics = thread[t].local.metrics]
    /\ results' = heap'[results_ref]
    /\ thread' = [thread EXCEPT ![t].pc = "set"]
    /\ UNCHANGED <<price_data, returns_data, transaction_cost, strategy,
                   signals_arg, pc, results_ref, all_results, gui>>

\* Line 105: return self.results
T_Return(t) ==
    /\ thread[t].pc = "set"
    /\ thread' = [thread EXCEPT ![t].pc = "returned", ![t].ret = results_ref]
    /\ UNCHANGED <<price_data, returns_data, transaction_cost, strategy, results,
                   signals_arg, pc, heap, results_ref, all_results, gui>>

NextParallel ==
    \/ \E t \in Threads, p \in {MAParams(1, 2), MRParams(2, I(0)), MomParams(1)} :
           T_Store(t, p)
    \/ \E t \in Threads : T_ReadReturns(t)
    \/ \E t \in Threads : T_ReadCumulative(t)
    \/ \E t \in Threads : T_ReadBuyHold(t)
    \/ \E t \in Threads : T_SetMetrics(t)
    \/ \E t \in Threads : T_Return(t)

SpecParallel == InitParallel /\ [][NextParallel]_vars

(***************************************************************************)
(* SpecCollected: one backtest, as Spec, on the data as main.py and the    *)
(* GUI hand them over: the market returns are the collector's returns of   *)
(* the prices (every price timestamp but the first).                       *)
(***************************************************************************)
InitCollected ==
    /\ price_data \in PriceSeriesSet
    /\ returns_data = calculate_returns(price_data)
    /\ transaction_cost \in CostRates
    /\ strategy = NewStrategy(NoParams)
    /\ results = NoResults
    /\ signals_arg = EmptySeries
    /\ pc = "ready"
    /\ NoCallers

SpecCollected == InitCollected /\ [][Next]_vars

(***************************************************************************)
(* SpecSteady: one backtest, as Spec, on a steady market: the prices rise  *)
(* or fall by one at every timestamp and the market returns are one value  *)
(* at every price timestamp, a tenth, three tenths or a half, so that a    *)
(* strategy that holds its position earns the same net return again and    *)
(* again.  The cost rate is 0.                                             *)
(***************************************************************************)
InitSteady ==
    /\ price_data \in TrendSeriesSet
    /\ returns_data \in {Const(price_data.index, x) : x \in {R(1, 10), R(3, 10), R(1, 2)}}
    /\ transaction_cost = I(0)
    /\ strategy = NewStrategy(NoParams)
    /\ results = NoResults
    /\ signals_arg = EmptySeries
    /\ pc = "ready"
    /\ NoCallers

SpecSteady == InitSteady /\ [][Next]_vars

(***************************************************************************)
(* SpecLoop: the loop of main.py, `for strategy in strategies:             *)
(* results = backtester.run(...); all_results.append(results)`, on one     *)
(* Backtester with the collector's data, for any list of at most LoopLen   *)
(* strategies (main.py lists one or all three of its strategies).  A dict  *)
(* is an object of the heap: Backtester.results and the entries of         *)
(* all_results refer to it.  Between two runs the caller may go on with a  *)
(* new Backtester of another cost rate, as the GUI makes one per run.      *)
(***************************************************************************)
LoopLen == 3

InitLoop ==
    /\ price_data \in UNION {PriceSeriesOfLen(k) : k \in 1..(MaxLen - 1)}
    /\ returns_data = calculate_returns(price_data)
    /\ transaction_cost = R(1, 10)
    /\ strategy = NewStrategy(NoParams)
    /\ results = NoResults
    /\ signals_arg = EmptySeries
    /\ pc = "ready"
    /\ NoCallers

\* The iteration as it would be if run filled the dict Backtester.results
\* refers to instead of assigning a new one
LoopRun_inplace(p) ==
    LET bundle == run_bundle(p, price_data, returns_data, transaction_cost)
        done == IF metrics_raise(bundle) THEN bundle
                ELSE [bundle EXCEPT !.keys = @ \cup {"metrics"},
                                    !.metrics = calculate_metrics(bundle)]
        ref == IF results_ref = 0 THEN Len(heap) + 1 ELSE results_ref
    IN  /\ pc \in {"ready", "returned"}
        /\ Len(all_results) < LoopLen
        /\ strategy' = [signals |-> bundle.signals,
                        intermediates |-> intermediates(p, price_data),
                        positions |-> get_positions(bundle.signals),
                        params |-> p,
                        set |-> {"signals", "positions", "intermediates"}]
        /\ heap' = IF results_ref = 0 THEN Append(heap, done)
                   ELSE [heap EXCEPT ![ref] = done]
        /\ results_ref' = ref
        /\ results' = done
        /\ IF metrics_raise(bundle)
           THEN /\ all_results' = all_results
                /\ pc' = "raised"
           ELSE /\ all_results' = Append(all_results, ref)
                /\ pc' = "returned"
        /\ UNCHANGED <<price_data, returns_data, transaction_cost, signals_arg,
                       thread, gui>>

\* One iteration: backtester.run(strategy, prices[ticker], returns[ticker]) with
\* the next strategy object of the list, then all_results.append(results).  run
\* makes a new dict, assigns it to self.results, sets its 'metrics' and returns
\* it; an error of _calculate_metrics ends the loop.
LoopRun(p) ==
    LET bundle == run_bundle(p, price_data, returns_data, transaction_cost)
        done == IF metrics_raise(bundle) THEN bundle
                ELSE [bundle EXCEPT !.keys = @ \cup {"metrics"},
                                    !.metrics = calculate_metrics(bundle)]
    IN  /\ pc \in {"ready", "returned"}
        /\ Len(all_results) < LoopLen
        /\ strategy' = [signals |-> bundle.signals,
                        intermediates |-> intermediates(p, price_data),
                        positions |-> get_positions(bundle.signals),
                        params |-> p,
                        set |-> {"signals", "positions", "intermediates"}]
        /\ heap' = Append(heap, done)
        /\ results_ref' = Len(heap) + 1
        /\ results' = done
        /\ IF metrics_raise(bundle)
           THEN /\ all_results' = all_results
                /\ pc' = "raised"
           ELSE /\ all_results' = Append(all_results, Len(heap) + 1)
                /\ pc' = "returned"
        /\ UNCHANGED <<price_data, returns_data, transaction_cost, signals_arg,
                       thread, gui>>

\* backtester = Backtester(transaction_cost=c) after a run: self.results = {}.
NewBacktester(c) ==
    /\ pc = "returned"
    /\ results_ref # 0
    /\ c # transaction_cost
    /\ transaction_cost' = c
    /\ results' = NoResults
    /\ results_ref' = 0
    /\ UNCHANGED <<price_data, returns_data, strategy, signals_arg, pc, heap,
                   all_results, thread, gui>>

NextLoop ==
    \/ \E p \in {MAParams(1, 2), MRParams(2, I(0)), MomParams(1)} : LoopRun(p)
    \/ \E c \in CostRates : NewBacktester(c)

SpecLoop == InitLoop /\ [][NextLoop]_vars

(***************************************************************************)
(* SpecGui: the GUI.  The download button starts a thread that makes a new *)
(* collector (and the cache directory, on first use, after a test other    *)
(* threads can make out of date), assigns self.collector,                  *)
(* assigns self.prices twice (fetched, then cleaned) and then              *)
(* self.returns; the button stays enabled, so a download can be started    *)
(* while others are in flight, and each of them works, line by line, on    *)
(* the collector self.collector then refers to.  A thread takes one step   *)
(* for each access to self.collector, to an attribute of a collector and   *)
(* to self.prices or self.returns.  The backtest button, enabled once      *)
(* self.prices is not None, starts a thread that reads self.prices, then   *)
(* self.returns, and runs a backtest on them.  No lock is taken.  At most  *)
(* MaxDownloads downloads are started and one backtest is made.  pc is the *)
(* backtest thread: "idle", "started", "read_prices", then "ready" for     *)
(* Backtester.run, or "raised_unset" when self.returns is None.            *)
(***************************************************************************)
MaxDownloads == 2

\* The pandas of the installation is not pinned.  Where a price is missing,
\* pct_change() first fills it with the last price before it when its
\* fill_method defaults to "pad" and leaves it when it defaults to None; that is
\* fixed for a behaviour.
InitGui ==
    /\ price_data = EmptySeries
    /\ returns_data = EmptySeries
    /\ transaction_cost = R(1, 10)
    /\ strategy = NewStrategy(NoParams)
    /\ results = NoResults
    /\ signals_arg = EmptySeries
    /\ pc = "idle"
    /\ NoBundles
    /\ thread = <<>>
    /\ gui \in {[NoGui EXCEPT !.fill_method = m, !.cache_dir = made] :
                   m \in {"pad", "none"}, made \in BOOLEAN}

\* data.pct_change() reads data so under the fill_method of the installation
padded(data) == IF gui.fill_method = "pad" THEN ffill(data) ELSE data

\* download_data and lines 273-279 of _download_data_thread: a new thread.
\* Collector k is the object download k makes at line 281, if it makes one.
DownloadStart ==
    /\ gui.downloads < MaxDownloads
    /\ gui' = [gui EXCEPT !.downloads = @ + 1, !.dl_pc = Append(@, "281_exists"),
                          !.dl_c = Append(@, 0), !.dl_v = Append(@, NoValue),
                          !.col_prices = Append(@, NoValue),
                          !.col_returns = Append(@, NoValue)]
    /\ UNCHANGED <<price_data, returns_data, transaction_cost, strategy, results,
                   signals_arg, pc, heap, results_ref, all_results, thread>>

\* Line 281, self.collector = DataCollector(use_cache=True).  __init__ tests
\* os.path.exists(cache_dir) (collector.py:34) and, on a missing directory,
\* calls os.makedirs(cache_dir) (collector.py:35), which raises FileExistsError
\* when another thread has made the directory since the test (lines 293-295 of
\* the thread, no collector made); the new object, with no price_data
\* attribute, is then assigned to self.collector.
DownloadNewCollector(k) ==
    LET at == gui.dl_pc[k]
    IN  /\ k <= gui.downloads /\ at \in {"281_exists", "281_makedirs", "281_assign"}
        /\ gui' = IF at = "281_exists" /\ ~gui.cache_dir
                  THEN [gui EXCEPT !.dl_pc[k] = "281_makedirs"]
                  ELSE IF at = "281_makedirs"
                       THEN [gui EXCEPT !.cache_dir = TRUE,
                                        !.dl_pc[k] = IF gui.cache_dir THEN "failed"
                                                     ELSE "281_assign"]
                  ELSE [gui EXCEPT !.collector = k, !.dl_pc[k] = "284_load"]
        /\ UNCHANGED <<price_data, returns_data, transaction_cost, strategy, results,
                       signals_arg, pc, heap, results_ref, all_results, thread>>

\* Lines 284, 285, 286 of download k, first: self.collector is evaluated and
\* the method is called on that object
DownloadLoadCollector(k) ==
    /\ k <= gui.downloads /\ gui.dl_pc[k] \in {"284_load", "285_load", "286_load"}
    /\ gui' = [gui EXCEPT !.dl_c[k] = gui.collector,
                          !.dl_pc[k] = IF @ = "284_load" THEN "284_fetch"
                                       ELSE IF @ = "285_load" THEN "285_read"
                                       ELSE "286_read"]
    /\ UNCHANGED <<price_data, returns_data, transaction_cost, strategy, results,
                   signals_arg, pc, heap, results_ref, all_results, thread>>

\* fetch_data, collector.py:70-112: the data arrive and are assigned to
\* self.price_data of the collector
DownloadFetch(k, raw) ==
    /\ k <= gui.downloads /\ gui.dl_pc[k] = "284_fetch"
    /\ gui' = [gui EXCEPT !.col_prices[gui.dl_c[k]] = <<raw, k, FALSE>>,
                          !.dl_pc[k] = "284_return"]
    /\ UNCHANGED <<price_data, returns_data, transaction_cost, strategy, results,
                   signals_arg, pc, heap, results_ref, all_results, thread>>

\* fetch_data raises ValueError (nothing downloaded, collector.py:107): lines
\* 293-295 of the thread
DownloadFails(k) ==
    /\ k <= gui.downloads /\ gui.dl_pc[k] = "284_fetch"
    /\ gui' = [gui EXCEPT !.dl_pc[k] = "failed"]
    /\ UNCHANGED <<price_data, returns_data, transaction_cost, strategy, results,
                   signals_arg, pc, heap, results_ref, all_results, thread>>

\* A read of self.price_data in a collector method: the return of fetch_data
\* (collector.py:120); in clean_data the operand of line 147 (and of 139), the
\* check of line 154, the operand of line 158 and the return of line 162; the
\* operand of line 179 of calculate_returns.  AttributeError, and lines 293-295
\* of the thread, on a collector no fetch_data has assigned it to.
DownloadReadPriceData(k) ==
    LET x == gui.col_prices[gui.dl_c[k]]
        at == gui.dl_pc[k]
    IN  /\ k <= gui.downloads
        /\ at \in {"284_return", "285_read", "285_check", "285_reread", "285_return",
                   "286_read"}
        /\ IF x[2] = 0
           THEN gui' = [gui EXCEPT !.dl_pc[k] = "failed"]
           ELSE gui' = [gui EXCEPT
                   !.dl_v[k] = IF at = "285_check" THEN @ ELSE x,
                   !.dl_pc[k] =
                       IF at = "284_return" THEN "284_store"
                       ELSE IF at = "285_read" THEN "285_write"
                       ELSE IF at = "285_check"
                            THEN (IF \E i \in 1..SLen(x[1]) : IsNaN(x[1].values[i])
                                  THEN "285_reread" ELSE "285_return")
                       ELSE IF at = "285_reread" THEN "285_drop"
                       ELSE IF at = "285_return" THEN "285_store"
                       ELSE "286_write"]
        /\ UNCHANGED <<price_data, returns_data, transaction_cost, strategy, results,
                       signals_arg, pc, heap, results_ref, all_results, thread>>

\* An assignment to self.price_data in clean_data: line 147, ffill().bfill() of
\* what was read, and line 158, its dropna()
DownloadWritePriceData(k) ==
    LET v == gui.dl_v[k]
    IN  /\ k <= gui.downloads /\ gui.dl_pc[k] \in {"285_write", "285_drop"}
        /\ gui' = [gui EXCEPT
               !.col_prices[gui.dl_c[k]] =
                   <<IF gui.dl_pc[k] = "285_write" THEN bfill(ffill(v[1])) ELSE dropna(v[1]),
                     v[2], TRUE>>,
               !.dl_pc[k] = IF @ = "285_write" THEN "285_check" ELSE "285_return"]
        /\ UNCHANGED <<price_data, returns_data, transaction_cost, strategy, results,
                       signals_arg, pc, heap, results_ref, all_results, thread>>

\* calculate_returns, collector.py:179: self.returns of the collector is
\* assigned pct_change().dropna() of what was read
DownloadWriteReturns(k) ==
    LET v == gui.dl_v[k]
    IN  /\ k <= gui.downloads /\ gui.dl_pc[k] = "286_write"
        /\ gui' = [gui EXCEPT
               !.col_returns[gui.dl_c[k]] = <<calculate_returns(padded(v[1])), v[2], v[3]>>,
               !.dl_pc[k] = "286_return"]
        /\ UNCHANGED <<price_data, returns_data, transaction_cost, strategy, results,
                       signals_arg, pc, heap, results_ref, all_results, thread>>

\* calculate_returns, collector.py:185: return self.returns
DownloadReadReturns(k) ==
    /\ k <= gui.downloads /\ gui.dl_pc[k] = "286_return"
    /\ gui' = [gui EXCEPT !.dl_v[k] = gui.col_returns[gui.dl_c[k]],
                          !.dl_pc[k] = "286_store"]
    /\ UNCHANGED <<price_data, returns_data, transaction_cost, strategy, results,
                   signals_arg, pc, heap, results_ref, all_results, thread>>

\* Lines 284, 285, 286, last: what the method returned is assigned, to
\* self.prices (284, 285) or to self.returns (286, then lines 288-291)
DownloadStore(k) ==
    LET v == gui.dl_v[k]
    IN  /\ k <= gui.downloads /\ gui.dl_pc[k] \in {"284_store", "285_store", "286_store"}
        /\ IF gui.dl_pc[k] = "286_store"
           THEN gui' = [gui EXCEPT !.returns = v[1], !.returns_of = v[2],
                                   !.dl_pc[k] = "done"]
           ELSE gui' = [gui EXCEPT !.prices = v[1], !.prices_of = v[2], !.cleaned = v[3],
                                   !.dl_pc[k] = IF @ = "284_store" THEN "285_load"
                                                ELSE "286_load"]
        /\ UNCHANGED <<price_data, returns_data, transaction_cost, strategy, results,
                       signals_arg, pc, heap, results_ref, all_results, thread>>

\* run_backtest: `if self.prices is None: return`, else the thread is started
BacktestStart ==
    /\ pc = "idle"
    /\ gui.prices_of # 0
    /\ pc' = "started"
    /\ UNCHANGED <<price_data, returns_data, transaction_cost, strategy, results,
                   signals_arg, callers>>

\* Line 342: price_data=self.prices[ticker]
BacktestReadPrices ==
    /\ pc = "started"
    /\ price_data' = gui.prices
    /\ gui' = [gui EXCEPT !.read_prices_of = gui.prices_of, !.read_cleaned = gui.cleaned]
    /\ pc' = "read_prices"
    /\ UNCHANGED <<returns_data, transaction_cost, strategy, results, signals_arg,
                   heap, results_ref, all_results, thread>>

\* Line 343: returns_data=self.returns[ticker]; None[ticker] raises TypeError,
\* caught at line 353
BacktestReadReturns ==
    /\ pc = "read_prices"
    /\ gui' = [gui EXCEPT !.read_returns_of = gui.returns_of]
    /\ IF gui.returns_of = 0
       THEN /\ pc' = "raised_unset"
            /\ UNCHANGED returns_data
       ELSE /\ pc' = "ready"
            /\ returns_data' = gui.returns
    /\ UNCHANGED <<price_data, transaction_cost, strategy, results, signals_arg,
                   heap, results_ref, all_results, thread>>

\* Lines 315-344: the strategy of strategy_var, a new Backtester and
\* backtester.run(strategy, prices, returns) on the series read.  Only the
\* momentum strategy calls pct_change on the prices.
BacktestRun(p) ==
    LET data == IF p.kind = "MomentumStrategy" THEN padded(price_data) ELSE price_data
        bundle == [run_bundle(p, data, returns_data, transaction_cost)
                      EXCEPT !.price_data = price_data]
    IN  /\ pc = "ready"
        /\ strategy' = [signals |-> bundle.signals,
                        intermediates |-> intermediates(p, data),
                        positions |-> get_positions(bundle.signals),
                        params |-> p,
                        set |-> {"signals", "positions", "intermediates"}]
        /\ IF metrics_raise(bundle)
           THEN /\ results' = bundle
                /\ pc' = "raised"
           ELSE /\ results' = [bundle EXCEPT !.keys = @ \cup {"metrics"},
                                             !.metrics = calculate_metrics(bundle)]
                /\ pc' = "returned"
        /\ UNCHANGED <<price_data, returns_data, transaction_cost, signals_arg, callers>>

NextGui ==
    \/ DownloadStart
    \/ \E k \in 1..MaxDownloads : DownloadNewCollector(k)
    \/ \E k \in 1..MaxDownloads : DownloadLoadCollector(k)
    \* what yfinance hands over: a complete series or one with a missing price
    \/ \E k \in 1..MaxDownloads,
          raw \in {Series(<<1, 2, 3>>, <<I(1), I(2), I(1)>>),
                   Series(<<1, 2, 3>>, <<I(2), NaN, I(1)>>)} : DownloadFetch(k, raw)
    \/ \E k \in 1..MaxDownloads : DownloadFails(k)
    \/ \E k \in 1..MaxDownloads : DownloadReadPriceData(k)
    \/ \E k \in 1..MaxDownloads : DownloadWritePriceData(k)
    \/ \E k \in 1..MaxDownloads : DownloadWriteReturns(k)
    \/ \E k \in 1..MaxDownloads : DownloadReadReturns(k)
    \/ \E k \in 1..MaxDownloads : DownloadStore(k)
    \/ BacktestStart
    \/ BacktestReadPrices
    \/ BacktestReadReturns
    \* strategy_var is "moving_average", "mean_reversion" or anything else
    \* (momentum)
    \/ \E p \in {MAParams(1, 2), MRParams(2, I(0)), MomParams(1)} : BacktestRun(p)

SpecGui == InitGui /\ [][NextGui]_vars

(***************************************************************************)
(* SpecExport: one backtest, as Spec, and then                             *)
(* Backtester.export_results(filepath), as main.py calls it on request.    *)
(***************************************************************************)
\* The lengths of the columns export_results hands to pd.DataFrame, in the order
\* Date, Price, Signal, Position, Strategy_Returns, Cumulative_Returns,
\* Buy_Hold_Returns.
export_columns(bundle) ==
    <<Len(bundle.cumulative_returns.index), Len(bundle.price_data.values),
      Len(bundle.signals.values), Len(bundle.positions.values),
      Len(bundle.strategy_returns.values), Len(bundle.cumulative_returns.values),
      Len(bundle.buy_hold_cumulative.values)>>

\* pd.DataFrame(dict of arrays) raises ValueError unless all arrays have one length.
export_raise(bundle) ==
    \E i, j \in 1..Len(export_columns(bundle)) :
        export_columns(bundle)[i] # export_columns(bundle)[j]

\* Backtester.export_results(filepath) after a completed run: the CSV file is
\* written, one row per place, or the DataFrame constructor raises.
Export ==
    /\ pc = "returned"
    /\ pc' = IF export_raise(results) THEN "export_raised" ELSE "exported"
    /\ UNCHANGED <<price_data, returns_data, transaction_cost, strategy, results,
                   signals_arg, callers>>

NextExport == Next \/ Export

SpecExport == Init /\ [][NextExport]_vars

(***************************************************************************)
(* Claims                                                                  *)
(***************************************************************************)
HasBundle == results.keys # {}

\* C1 (as claimed): at every market-return timestamp, the first included, the net
\* return of the bundle is a defined number equal to
\* position[t] * market_return[t] - |position[t] - position[t-1]| * cost_rate,
\* the predecessor of the first position being 0.
C1_NetReturnFromFlat ==
    HasBundle =>
        \A i \in 1..SLen(results.market_returns) :
            LET pos == results.positions.values
                prev == IF i = 1 THEN I(0) ELSE pos[i - 1]
                net == results.strategy_returns.values[i]
            IN  /\ ~IsNaN(net)
                /\ net = Sub(Mul(pos[i], results.market_returns.values[i]),
                             Mul(AbsN(Sub(pos[i], prev)), transaction_cost))

\* C2: get_positions(s) has the timestamps of s, is 0 at the first timestamp and
\* is the value of s at the preceding timestamp at every later one.
C2_PositionsAreLaggedSignals ==
    (pc = "returned" /\ "positions" \in strategy.set) =>
        /\ strategy.positions.index = signals_arg.index
        /\ Len(strategy.positions.values) = Len(signals_arg.values)
        /\ \A i \in 1..SLen(signals_arg) :
               strategy.positions.values[i] =
                   IF i = 1 THEN I(0) ELSE signals_arg.values[i - 1]

\* C2 witness: get_positions returned for a series of three signals whose first
\* two are not 0 and differ.
C2_Witness ==
    /\ pc = "returned" /\ "positions" \in strategy.set
    /\ SLen(signals_arg) = 3
    /\ signals_arg.values[1] = I(-1) /\ signals_arg.values[2] = I(1)
    /\ strategy.positions.values = <<I(0), I(-1), I(1)>>

\* C3: no look-ahead.  For each strategy, the position Backtester.run holds at a
\* market-return timestamp t is the same for any two price series over the same
\* timestamps that agree strictly before t.  Two such series differ only at
\* timestamps >= t and are joined by a chain of series that each change one price
\* at a timestamp k >= t, so it is stated for one changed price: changing the price
\* at k leaves the position at every market-return timestamp t <= k as it is.
C3_NoLookAhead ==
    HasBundle =>
        \A k \in 1..SLen(price_data) : \A v \in PriceValues \ {price_data.values[k]} :
            LET other == Series(price_data.index, [price_data.values EXCEPT ![k] = v])
                pos == run_positions(get_positions(generate_signals(strategy.params, other)),
                                     returns_data)
            IN  \A j \in 1..SLen(returns_data) :
                    returns_data.index[j] <= price_data.index[k] =>
                        pos.values[j] = results.positions.values[j]

\* C3 witness: a momentum run in which another price at timestamp k changes the
\* signal at k, while a position other than 0 is held at k.
C3_Witness ==
    /\ pc = "returned" /\ strategy.params.kind = "MomentumStrategy"
    /\ \E k \in 2..SLen(price_data), v \in PriceValues, j \in 1..SLen(returns_data) :
          LET other == Series(price_data.index, [price_data.values EXCEPT ![k] = v])
          IN  /\ generate_signals(strategy.params, other).values[k] #
                     results.signals.values[k]
              /\ returns_data.index[j] = price_data.index[k]
              /\ results.positions.values[j] # I(0)

\* The product of vals[1..i], not-a-number as soon as one factor is.
RECURSIVE RunningProduct(_, _)
RunningProduct(vals, i) ==
    IF i = 0 THEN I(1) ELSE Mul(RunningProduct(vals, i - 1), vals[i])

\* C4 (as claimed): the equity curve has one defined entry per market-return
\* timestamp, equal to the product of (1 + net_return[s]) over all s <= t seeded
\* with 1.0; the first entry is 1.0 * (1 + net_return[first]), not undefined.
C4_EquityIsRunningProduct ==
    HasBundle =>
        /\ results.cumulative_returns.index = results.market_returns.index
        /\ \A i \in 1..SLen(results.market_returns) :
               LET equity == results.cumulative_returns.values[i]
                   factors == SPlus(results.strategy_returns, I(1)).values
               IN  /\ ~IsNaN(equity)
                   /\ equity = RunningProduct(factors, i)

\* Sum of the (integer) prices of the window of w observations that ends at i.
RECURSIVE PriceSum(_, _, _)
PriceSum(data, i, w) ==
    IF w = 0 THEN 0 ELSE data.values[i].n + PriceSum(data, i - 1, w - 1)
\* Sum of the squares of the prices of that window.
RECURSIVE PriceSquareSum(_, _, _)
PriceSquareSum(data, i, w) ==
    IF w = 0 THEN 0
    ELSE data.values[i].n * data.values[i].n + PriceSquareSum(data, i - 1, w - 1)

\* C5: the crossover signal is defined for every price series, is +1 where both
\* rolling means exist and fast-mean > slow-mean, -1 where both exist otherwise
\* (a tie included), and 0 where either mean is undefined.  The means are compared
\* as slow * (sum of the fast window) > fast * (sum of the slow window).
C5_CrossoverSignals ==
    (pc = "returned" /\ strategy.params.kind = "MovingAverageCrossover") =>
        LET fast == strategy.params.fast
            slow == strategy.params.slow
        IN  /\ Len(strategy.signals.values) = SLen(price_data)
            /\ \A i \in 1..SLen(price_data) :
                   strategy.signals.values[i] =
                       IF i >= fast /\ i >= slow
                       THEN IF slow * PriceSum(price_data, i, fast) >
                               fast * PriceSum(price_data, i, slow)
                            THEN I(1) ELSE I(-1)
                       ELSE I(0)

\* C5 witness: fast = 1, slow = 2 on prices 1, 1, 2: warm-up, then a tie, then
\* fast above slow.
C5_Witness ==
    /\ pc = "returned" /\ strategy.params = MAParams(1, 2)
    /\ price_data.values = <<I(1), I(1), I(2)>>
    /\ strategy.signals.values = <<I(0), I(-1), I(1)>>

\* The warm-up of the momentum strategy: the first `lookback` timestamps.
MomentumWarmup ==
    {i \in 1..SLen(price_data) : i <= strategy.params.lookback}

\* C6 (as claimed): where the momentum is not yet defined the momentum signal is
\* -1, never 0.
C6_WarmupIsSell ==
    (pc = "returned" /\ strategy.params.kind = "MomentumStrategy") =>
        \A i \in MomentumWarmup : strategy.signals.values[i] = I(-1)

\* C6 (amended): where the momentum is not yet defined (the first `lookback`
\* timestamps, or the whole series when it is not longer than `lookback`) the
\* momentum signal is 0, as in the warm-up of the other two strategies.
C6_WarmupIsNeutral ==
    (pc = "returned" /\ strategy.params.kind = "MomentumStrategy") =>
        \A i \in MomentumWarmup : strategy.signals.values[i] = I(0)

\* C6 witness: a momentum run on a series shorter than the lookback.
C6_Witness ==
    /\ pc = "returned" /\ strategy.params.kind = "MomentumStrategy"
    /\ SLen(price_data) = 2 /\ strategy.params.lookback = 3
    /\ strategy.signals.values = <<I(0), I(0)>>

\* C7: on positive prices, at every timestamp with at least `lookback` earlier
\* observations the momentum signal is +1 if price[t] > price[t-lookback] and -1
\* if price[t] <= price[t-lookback]; it is never 0 there.
C7_MomentumSignals ==
    (pc = "returned" /\ strategy.params.kind = "MomentumStrategy") =>
        \A i \in 1..SLen(price_data) :
            i > strategy.params.lookback =>
                strategy.signals.values[i] =
                    IF price_data.values[i].n >
                       price_data.values[i - strategy.params.lookback].n
                    THEN I(1) ELSE I(-1)

\* C7 witness: lookback 1 on prices 1, 1, 2: zero momentum, then a rise.
C7_Witness ==
    /\ pc = "returned" /\ strategy.params = MomParams(1)
    /\ price_data.values = <<I(1), I(1), I(2)>>
    /\ strategy.signals.values[2] = I(-1)
    /\ strategy.signals.values[3] = I(1)

\* C8: with threshold >= 0 the mean-reversion signal is defined for every price
\* series, is -1 when z > threshold, +1 when z < -threshold and 0 otherwise, and
\* is 0 wherever the rolling standard deviation is undefined or zero.  With S and
\* Q the sum and the sum of squares of the window of w prices ending at t,
\* dev = w * price[t] - S and v = w * Q - S * S:  std is undefined for t < w and
\* for w = 1, std = 0 iff v = 0, and for threshold a/b
\*   |z| > a/b  iff  dev^2 * (w - 1) * b^2 > a^2 * w * v.
C8_MeanReversionSignals ==
    (pc = "returned" /\ strategy.params.kind = "MeanReversionZScore"
        /\ strategy.params.threshold.n >= 0) =>
        LET w == strategy.params.window
            a == strategy.params.threshold.n
            b == strategy.params.threshold.d
            S(i) == PriceSum(price_data, i, w)
            Q(i) == PriceSquareSum(price_data, i, w)
            dev(i) == w * price_data.values[i].n - S(i)
            v(i) == w * Q(i) - S(i) * S(i)
            stdOk(i) == i >= w /\ w >= 2 /\ v(i) > 0
            beyond(i) == dev(i) * dev(i) * (w - 1) * b * b > a * a * w * v(i)
        IN  /\ Len(strategy.signals.values) = SLen(price_data)
            /\ \A i \in 1..SLen(price_data) :
                   strategy.signals.values[i] =
                       IF ~stdOk(i) THEN I(0)
                       ELSE IF dev(i) > 0 /\ beyond(i) THEN I(-1)
                       ELSE IF dev(i) < 0 /\ beyond(i) THEN I(1)
                       ELSE I(0)

\* C8 witness: window 2, threshold 0 on prices 1, 1, 2, 1: warm-up, a window of
\* identical prices (std = 0), an overbought and an oversold timestamp.
C8_Witness ==
    /\ pc = "returned" /\ strategy.params = MRParams(2, I(0))
    /\ price_data.values = <<I(1), I(1), I(2), I(1)>>
    /\ strategy.signals.values = <<I(0), I(0), I(-1), I(1)>>

\* C9: the series generate_signals returns has exactly the timestamps of the
\* price series, in the same order, for each strategy and also for a series
\* shorter than the strategy's window.
C9_SignalsKeepTimestamps ==
    pc = "returned" =>
        /\ strategy.signals.index = price_data.index
        /\ Len(strategy.signals.values) = Len(price_data.index)

\* C9 witness: a mean-reversion strategy of window 3 has returned signals for a
\* price series of two observations.
C9_Witness ==
    /\ pc = "returned"
    /\ SLen(price_data) = 2
    /\ strategy.params.kind = "MeanReversionZScore"
    /\ strategy.params.window = 3
    /\ SLen(strategy.signals) = 2

\* C10: every signal returned by a strategy and every position of the bundle,
\* after alignment to the market-return timestamps, is -1, 0 or +1.
C10_SignalsAndPositionsInRange ==
    HasBundle =>
        /\ \A i \in 1..SLen(results.signals) :
               results.signals.values[i] \in SignalValues
        /\ \A j \in 1..SLen(results.positions) :
               results.positions.values[j] \in SignalValues

\* C10 witness: market returns at the timestamps 2 and MaxLen + 1; the position at
\* 2 is short and the timestamp MaxLen + 1, which no price has, is filled flat.
C10_Witness ==
    /\ pc = "returned"
    /\ results.positions.index = <<2, MaxLen + 1>>
    /\ results.positions.values = <<I(-1), I(0)>>
    /\ results.signals.values[1] = I(-1)

\* The market is flat: there are market returns and every one is exactly 0.
FlatMarket ==
    /\ SLen(results.market_returns) > 0
    /\ \A i \in 1..SLen(results.market_returns) : results.market_returns.values[i] = I(0)

\* C11 (as claimed): in a flat market the cost |position[t] - position[t-1]| *
\* cost_rate and the net return are 0 at every market-return timestamp and the
\* equity curve is 1.0 at every timestamp, whatever the positions and the cost rate.
C11_FlatMarketIsFree ==
    (HasBundle /\ FlatMarket) =>
        LET costs == SScale(run_trades(results.positions), transaction_cost)
        IN  \A i \in 1..SLen(results.market_returns) :
                /\ costs.values[i] = I(0)
                /\ results.strategy_returns.values[i] = I(0)
                /\ results.cumulative_returns.values[i] = I(1)

\* Scenario B: a completed crossover run on a constant price series, with the
\* collector's market returns (all 0, at least two of them) and windows that fit
\* in the series.
ScenarioB ==
    /\ pc = "returned"
    /\ strategy.params.kind = "MovingAverageCrossover"
    /\ strategy.params.fast <= SLen(price_data)
    /\ strategy.params.slow <= SLen(price_data)
    /\ \A i \in 1..SLen(price_data) : price_data.values[i] = price_data.values[1]
    /\ returns_data = calculate_returns(price_data)
    /\ SLen(returns_data) >= 2
    /\ FlatMarket

ScenarioBZeros ==
    /\ results.metrics.TotalReturn = I(0)
    /\ results.metrics.SharpeRatio = I(0)
    /\ results.metrics.MaxDrawdown = I(0)

\* C12 (as claimed): Scenario B yields Total Return = 0, Sharpe Ratio = 0 and
\* Max Drawdown = 0 for any cost rate >= 0.
C12_ScenarioBAnyCost == ScenarioB => ScenarioBZeros

\* The bundle is long at every market-return timestamp, and there is one.
AlwaysLong ==
    /\ HasBundle
    /\ SLen(results.positions) > 0
    /\ \A i \in 1..SLen(results.positions) : results.positions.values[i] = I(1)

\* C13 (as claimed): with cost rate 0 and the position +1 at every market-return
\* timestamp, the net return is the market return at every timestamp, the first
\* included, and the equity curve is the benchmark curve.
C13_ZeroCostRoundTrip ==
    (AlwaysLong /\ transaction_cost = I(0)) =>
        /\ \A i \in 1..SLen(results.market_returns) :
               results.strategy_returns.values[i] = results.market_returns.values[i]
        /\ results.cumulative_returns = results.buy_hold_cumulative

\* The market-return timestamps at which the aligned position differs from the
\* position at the timestamp before (from flat, at the first timestamp).
PositionChanges ==
    {i \in 1..SLen(results.positions) :
        results.positions.values[i] #
            (IF i = 1 THEN I(0) ELSE results.positions.values[i - 1])}

\* C14 (as claimed): in every completed run 'Total Trades' is the number of
\* market-return timestamps at which the aligned position changes.
C14_TotalTradesArePositionChanges ==
    pc = "returned" => results.metrics.TotalTrades = Cardinality(PositionChanges)

\* Scenario C: a completed run with cost rate 0 that is long at every
\* market-return timestamp, all market returns being the same negative number.
ScenarioC ==
    /\ pc = "returned" /\ AlwaysLong /\ transaction_cost = I(0)
    /\ Lt(results.market_returns.values[1], I(0))
    /\ \A i \in 1..SLen(results.market_returns) :
           results.market_returns.values[i] = results.market_returns.values[1]

\* C15 (as claimed): in Scenario C with N market returns r the final equity is the
\* product of all N factors 1 + r, Total Return is that product minus 1 and CAGR
\* is (1 + Total Return) ** (252 / N) - 1.
C15_ScenarioC ==
    ScenarioC =>
        LET N == SLen(results.market_returns)
            product == RunningProduct(SPlus(results.market_returns, I(1)).values, N)
        IN  /\ last(results.cumulative_returns) = product
            /\ results.metrics.TotalReturn = Sub(product, I(1))
            /\ results.metrics.CAGR = PowMinusOne(product, R(TradingDays, N))

\* C16 (as claimed): in every completed run 'Max Drawdown' is a defined number
\* with -1 <= Max Drawdown <= 0.
C16_MaxDrawdownInRange ==
    pc = "returned" =>
        /\ ~IsNaN(results.metrics.MaxDrawdown)
        /\ Le(I(-1), results.metrics.MaxDrawdown)
        /\ Le(results.metrics.MaxDrawdown, I(0))

\* C17 (as claimed): a run whose net-return series has no observation left once
\* its not-a-number entries are dropped (N = 0) fails with an error, and its bundle
\* gets no metrics table.
C17_NoMetricsWithoutObservations ==
    (HasBundle /\ SLen(dropna(results.strategy_returns)) = 0) =>
        /\ pc = "raised"
        /\ "metrics" \notin results.keys

\* The net returns _calculate_metrics works on: the defined ones, in order.
NetReturns == dropna(results.strategy_returns).values
IsPositive(x) == Gt(x, I(0))
IsNegative(x) == Lt(x, I(0))
IsNonZero(x) == x # I(0)
NetPositive == SelectSeq(NetReturns, IsPositive)
NetNegative == SelectSeq(NetReturns, IsNegative)
NetNonZero == SelectSeq(NetReturns, IsNonZero)
\* The standard deviation of the net returns is 0: two or more, all the same.
NetStdIsZero ==
    /\ Len(NetReturns) >= 2
    /\ \A i \in 1..Len(NetReturns) : NetReturns[i] = NetReturns[1]

\* C18 (as claimed): _calculate_metrics raises no error for a bundle whose
\* equity curve is not empty, and in its table each guarded ratio is exactly 0 when its guard
\* condition holds: Sharpe Ratio when the standard deviation of the net returns
\* is 0, Calmar Ratio when Max Drawdown is 0, Win Rate when no net return is
\* nonzero, Avg Win / Avg Loss when no net return is positive / negative,
\* Win/Loss Ratio when Avg Loss is 0.  The other metrics keep their formulas
\* (Total Return, Total Trades, Buy & Hold Return, Outperformance, CAGR, a zero
\* Volatility for a zero standard deviation), and so does a guarded ratio whose
\* guard condition does not hold (Win Rate, Avg Win, Avg Loss, Win/Loss Ratio,
\* Calmar Ratio).
C18_GuardedRatiosAreZero ==
    /\ (HasBundle /\ SLen(results.cumulative_returns) > 0) => pc = "returned"
    /\ pc = "returned" =>
        LET m == results.metrics
            wins == Len(NetPositive)
            losses == Len(NetNegative)
            nonzero == Len(NetNonZero)
        IN  /\ "metrics" \in results.keys
            /\ NetStdIsZero => (m.SharpeRatio = I(0) /\ m.Volatility = I(0))
            /\ m.MaxDrawdown = I(0) => m.CalmarRatio = QuotZero
            /\ nonzero = 0 => m.WinRate = I(0)
            /\ wins = 0 => m.AvgWin = I(0)
            /\ losses = 0 => m.AvgLoss = I(0)
            /\ m.AvgLoss = I(0) => m.WinLossRatio = I(0)
            /\ m.TotalReturn = Sub(last(results.cumulative_returns), I(1))
            /\ m.TotalTrades = nonzero
            /\ m.BuyHoldReturn = Sub(last(results.buy_hold_cumulative), I(1))
            /\ m.Outperformance = Sub(m.TotalReturn, m.BuyHoldReturn)
            /\ Len(NetReturns) > 0 =>
                   m.CAGR = PowMinusOne(last(results.cumulative_returns),
                                        R(TradingDays, Len(NetReturns)))
            /\ nonzero > 0 => Mul(m.WinRate, I(nonzero)) = I(wins)
            /\ wins > 0 => Mul(m.AvgWin, I(wins)) = SumRange(NetPositive, 1, wins)
            /\ losses > 0 => Mul(m.AvgLoss, I(losses)) = SumRange(NetNegative, 1, losses)
            /\ m.AvgLoss # I(0) => Mul(m.WinLossRatio, AbsN(m.AvgLoss)) = AbsN(m.AvgWin)
            /\ (m.MaxDrawdown # I(0) /\ ~IsNaN(m.MaxDrawdown)) =>
                   m.CalmarRatio = PowOver(m.CAGR, AbsN(m.MaxDrawdown))

\* C19: the positions of the strategy and the market returns need not share their
\* timestamps.  Backtester.run then raises no error (the market-return series not
\* being empty, which is the empty-input condition of C17); the positions of the
\* bundle are on exactly the market-return timestamps, each the strategy's position
\* at that timestamp, or 0 where the strategy has none; positions at other
\* timestamps are left out; the net-return, equity and benchmark series are on
\* exactly the market-return timestamps.
C19_MisalignedSeriesAreReindexed ==
    HasBundle =>
        LET own == strategy.positions
            idx == results.market_returns.index
        IN  /\ SLen(results.market_returns) > 0 => pc = "returned"
            /\ results.market_returns = returns_data
            /\ results.positions.index = idx
            /\ Len(results.positions.values) = Len(idx)
            /\ \A j \in 1..Len(idx) :
                   IF \E i \in 1..SLen(own) : own.index[i] = idx[j]
                   THEN \A i \in 1..SLen(own) :
                            own.index[i] = idx[j] =>
                                results.positions.values[j] = own.values[i]
                   ELSE results.positions.values[j] = I(0)
            /\ results.strategy_returns.index = idx
            /\ Len(results.strategy_returns.values) = Len(idx)
            /\ results.cumulative_returns.index = idx
            /\ Len(results.cumulative_returns.values) = Len(idx)
            /\ results.buy_hold_cumulative.index = idx
            /\ Len(results.buy_hold_cumulative.values) = Len(idx)

\* C19 witness: a completed run on prices at the timestamps 1, 2, 3 and market
\* returns at 0 and 2: no position exists at 0 (filled flat), the short position
\* at 2 is kept, the positions at 1 and 3 are left out.
C19_Witness ==
    /\ pc = "returned"
    /\ returns_data.index = <<0, 2>>
    /\ strategy.positions.index = <<1, 2, 3>>
    /\ strategy.positions.values = <<I(0), I(-1), I(-1)>>
    /\ results.positions.values = <<I(0), I(-1)>>
    /\ results.cumulative_returns.index = <<0, 2>>

\* C20: idempotence.  A second Backtester.run with the same strategy (the object
\* of the first run, or a new one with its parameters), prices, market returns and
\* cost rate ends as the first did (returned, or raised for an empty market-return
\* series) and leaves in self.results the signal, position, net-return, equity and
\* benchmark series and the metrics of the dict the first run made; the strategy
\* object holds those signals.
C20_SecondRunIsIdentical ==
    pc \in {"returned_again", "raised_again"} =>
        /\ (pc = "returned_again") = ("metrics" \in heap[1].keys)
        /\ results.signals = heap[1].signals
        /\ results.positions = heap[1].positions
        /\ results.strategy_returns = heap[1].strategy_returns
        /\ results.cumulative_returns = heap[1].cumulative_returns
        /\ results.buy_hold_cumulative = heap[1].buy_hold_cumulative
        /\ results.metrics = heap[1].metrics
        /\ results.keys = heap[1].keys
        /\ strategy.signals = heap[1].signals

\* C20 witness: a second run has returned, after a first run that ended short or
\* long, with a bundle whose equity curve has moved away from 1.0 and in which
\* trades were counted.
C20_Witness ==
    /\ pc = "returned_again"
    /\ Len(heap) = 1 /\ "metrics" \in heap[1].keys
    /\ last(heap[1].positions) # I(0)
    /\ SLen(results.cumulative_returns) >= 3
    /\ ~IsNaN(last(results.cumulative_returns))
    /\ last(results.cumulative_returns) # I(1)
    /\ results.metrics.TotalTrades >= 2

\* The bundle Backtester.run returns when it is the only call (as Run leaves it).
RunAlone(p) ==
    LET bundle == run_bundle(p, price_data, returns_data, transaction_cost)
    IN  [bundle EXCEPT !.keys = @ \cup {"metrics"}, !.metrics = calculate_metrics(bundle)]

\* C21 (as claimed): whatever the interleaving of two run calls on one Backtester,
\* the bundle a call has returned carries metrics computed from its own net-return,
\* equity and benchmark series, and is the bundle the call returns when alone.
C21_ParallelRunsAreIsolated ==
    \A t \in Threads :
        thread[t].pc = "returned" =>
            /\ heap[thread[t].ret].metrics = calculate_metrics(heap[thread[t].ret])
            /\ heap[thread[t].ret] = RunAlone(thread[t].strategy.params)

\* The places of the net-return series that hold a number: all, above 0, not 0.
NetDefinedAt == {i \in 1..SLen(results.strategy_returns) :
                    ~IsNaN(results.strategy_returns.values[i])}
NetWinsAt == {i \in NetDefinedAt : Gt(results.strategy_returns.values[i], I(0))}
NetTradesAt == {i \in NetDefinedAt : results.strategy_returns.values[i] # I(0)}

\* C22: in every completed run 'Total Trades' is the number of net returns that are
\* not missing and not 0, 'Win Rate' is the number of net returns above 0 divided by
\* that number, and 0 when that number is 0; so 0 <= Win Rate <= 1 and the winning
\* periods are no more than Total Trades.
C22_WinRateAndTotalTrades ==
    pc = "returned" =>
        /\ results.metrics.TotalTrades = Cardinality(NetTradesAt)
        /\ results.metrics.WinRate =
               IF Cardinality(NetTradesAt) = 0 THEN I(0)
               ELSE R(Cardinality(NetWinsAt), Cardinality(NetTradesAt))
        /\ Le(I(0), results.metrics.WinRate)
        /\ Le(results.metrics.WinRate, I(1))
        /\ Cardinality(NetWinsAt) <= results.metrics.TotalTrades

\* A completed run with a missing net return, a winning one and a losing one:
\* Win Rate 1/2 of 2 trades.
C22_Witness ==
    /\ pc = "returned"
    /\ SLen(results.strategy_returns) = 3
    /\ Cardinality(NetDefinedAt) = 2
    /\ Cardinality(NetWinsAt) = 1
    /\ results.metrics.TotalTrades = 2
    /\ results.metrics.WinRate = R(1, 2)

\* A completed run without a net return that is not 0: Win Rate 0 by the guard.
C22_WitnessNoTrades ==
    /\ pc = "returned"
    /\ Cardinality(NetDefinedAt) >= 1
    /\ results.metrics.TotalTrades = 0
    /\ results.metrics.WinRate = I(0)

\* The factors 1 + market_return of the caller's market returns.
MarketFactors == [s \in 1..SLen(returns_data) |-> Add(I(1), returns_data.values[s])]
\* The dicts of the heap that a run has completed.
Completed == {i \in 1..Len(heap) : "metrics" \in heap[i].keys}

\* C23: the benchmark curve of a bundle has, at every market-return timestamp t, the
\* product of (1 + market_return[s]) over s <= t seeded with 1; the bundles of runs
\* over the same market returns with other strategies, signals, positions or cost
\* rates have the same benchmark curve and the same 'Buy & Hold Return'.
C23_BenchmarkIsStrategyIndependent ==
    /\ \A i \in 1..Len(heap) :
           /\ heap[i].buy_hold_cumulative.index = returns_data.index
           /\ \A t \in 1..SLen(returns_data) :
                  heap[i].buy_hold_cumulative.values[t] = RunningProduct(MarketFactors, t)
    /\ \A i \in Completed :
           heap[i].metrics.BuyHoldReturn =
               Sub(RunningProduct(MarketFactors, SLen(returns_data)), I(1))
    /\ \A i, j \in Completed :
           /\ heap[i].buy_hold_cumulative = heap[j].buy_hold_cumulative
           /\ heap[i].metrics.BuyHoldReturn = heap[j].metrics.BuyHoldReturn

\* Two completed runs of different strategies with different positions and net
\* returns, on a market that moved.
C23_Witness ==
    /\ Len(all_results) >= 2
    /\ heap[all_results[1]].strategy_name # heap[all_results[2]].strategy_name
    /\ heap[all_results[1]].positions # heap[all_results[2]].positions
    /\ heap[all_results[1]].strategy_returns # heap[all_results[2]].strategy_returns
    /\ SLen(returns_data) >= 2
    /\ heap[all_results[1]].metrics.BuyHoldReturn # I(0)
    /\ heap[all_results[1]].buy_hold_cumulative.values[1] # I(1)

\* Two completed runs of one strategy whose net returns differ, by the cost rate.
C23_WitnessCostRates ==
    /\ Len(all_results) >= 2
    /\ heap[all_results[1]].strategy_name = heap[all_results[2]].strategy_name
    /\ heap[all_results[1]].strategy_returns # heap[all_results[2]].strategy_returns

\* C24 (as claimed): when every net return of a bundle is above -1 (a missing one
\* aside), every entry of its equity curve is a number above 0.
C24_EquityStaysPositive ==
    (HasBundle /\ \A i \in NetDefinedAt : Gt(results.strategy_returns.values[i], I(-1))) =>
        \A i \in 1..SLen(results.cumulative_returns) :
            Gt(results.cumulative_returns.values[i], I(0))

\* What holds of the code: the entries of the equity curve that are numbers are
\* above 0 when the net returns that are numbers are above -1.
C24_DefinedEquityStaysPositive ==
    (HasBundle /\ \A i \in NetDefinedAt : Gt(results.strategy_returns.values[i], I(-1))) =>
        \A i \in 1..SLen(results.cumulative_returns) :
            \/ IsNaN(results.cumulative_returns.values[i])
            \/ Gt(results.cumulative_returns.values[i], I(0))

\* C25: in every completed run 'Total Return' is the last entry of the equity curve
\* minus 1, 'Buy & Hold Return' the last entry of the benchmark curve minus 1 and
\* 'Outperformance' their difference; both last entries are at the last
\* market-return timestamp.
C25_ReturnsAreTakenAtTheEnd ==
    pc = "returned" =>
        LET n == SLen(returns_data)
            equity == results.cumulative_returns
            benchmark == results.buy_hold_cumulative
        IN  /\ SLen(equity) = n /\ SLen(benchmark) = n
            /\ equity.index[n] = returns_data.index[n]
            /\ benchmark.index[n] = returns_data.index[n]
            /\ results.metrics.TotalReturn = Sub(equity.values[n], I(1))
            /\ results.metrics.BuyHoldReturn = Sub(benchmark.values[n], I(1))
            /\ results.metrics.Outperformance =
                   Sub(Sub(equity.values[n], I(1)), Sub(benchmark.values[n], I(1)))

\* A completed run of three periods whose equity moved away from 1 before its last
\* entry and that ended below the benchmark.
C25_Witness ==
    /\ pc = "returned"
    /\ SLen(returns_data) = 3
    /\ ~IsNaN(results.cumulative_returns.values[2])
    /\ results.cumulative_returns.values[2] # results.cumulative_returns.values[3]
    /\ ~IsNaN(results.metrics.TotalReturn)
    /\ Lt(results.metrics.Outperformance, I(0))
    /\ results.metrics.BuyHoldReturn # I(0)

\* The cost charged at place i of a bundle: gross return minus net return.
CostAt(i) ==
    Sub(Mul(results.positions.values[i], results.market_returns.values[i]),
        results.strategy_returns.values[i])

\* C26 (as claimed, for the timestamps that have a predecessor): the cost charged is
\* the cost rate where the position differs from the one before, a reversal between
\* +1 and -1 as a move from or to flat, and 0 where it does not: never another
\* amount.
C26_FlatCostPerChange ==
    HasBundle =>
        \A i \in 2..SLen(results.positions) :
            CostAt(i) = IF results.positions.values[i] # results.positions.values[i - 1]
                        THEN transaction_cost ELSE I(0)

\* A step leaves the caller's series and every bundle collected so far as they are,
\* and the bundles collected after it are different dicts.
LaterRunKeepsEarlierBundles ==
    /\ price_data' = price_data
    /\ returns_data' = returns_data
    /\ Len(all_results') >= Len(all_results)
    /\ \A i \in 1..Len(all_results) :
           /\ all_results'[i] = all_results[i]
           /\ heap'[all_results[i]] = heap[all_results[i]]
    /\ \A i, j \in 1..Len(all_results') : i # j => all_results'[i] # all_results'[j]

\* C27: a later run on the same Backtester, with the same or another strategy,
\* leaves the series and the metrics of the bundle every earlier run returned
\* unchanged and does not modify the caller's price and market-return series; the
\* bundles collected over the loop are different dicts.
C27_EarlierBundlesAreKept == [][LaterRunKeepsEarlierBundles]_vars

\* Three bundles collected on one Backtester, the first and the last of one
\* strategy, the second of another with other net returns and another Total Return.
C27_Witness ==
    /\ Len(all_results) = 3
    /\ results_ref = all_results[3]
    /\ heap[all_results[1]].strategy_name = heap[all_results[3]].strategy_name
    /\ heap[all_results[1]].strategy_name # heap[all_results[2]].strategy_name
    /\ heap[all_results[1]].strategy_returns # heap[all_results[2]].strategy_returns
    /\ heap[all_results[1]].metrics.TotalReturn # heap[all_results[2]].metrics.TotalReturn
    /\ all_results = <<1, 2, 3>>

\* C28 (as claimed): after a call of Backtester.run that raised, Backtester.results
\* is what it was before the call, the initial empty dict or the complete bundle of
\* a completed run with its 'metrics' entry; never a bundle without 'metrics'.
C28_FailedRunLeavesResults ==
    pc = "raised" => (results = NoResults \/ "metrics" \in results.keys)

\* The backtest thread has read self.prices and self.returns.
BacktestHasRead == pc \in {"ready", "raised_unset", "returned", "raised"}

\* C29 (as claimed): whatever the interleaving of the download thread and the
\* backtest thread, the prices and the returns the backtest thread has read were
\* made by the same download, the prices by its clean_data: never prices of one
\* download with the returns of another, never prices with returns still unset or
\* not yet cleaned.
C29_BacktestReadsOneDownload ==
    BacktestHasRead =>
        /\ gui.read_returns_of # 0
        /\ gui.read_prices_of = gui.read_returns_of
        /\ gui.read_cleaned
        /\ returns_data = calculate_returns(price_data)

\* C30 (as claimed): after a completed run on the collector's data (market returns
\* on every price timestamp but the first), the series export_results combines all
\* have the same length, and export_results does not raise.
C30_ExportColumnsAgree ==
    (pc \in {"returned", "exported", "export_raised"}
        /\ returns_data = calculate_returns(price_data)) =>
        /\ pc # "export_raised"
        /\ SLen(results.price_data) = SLen(results.cumulative_returns)
        /\ SLen(results.signals) = SLen(results.cumulative_returns)
        /\ SLen(results.positions) = SLen(results.cumulative_returns)
        /\ SLen(results.strategy_returns) = SLen(results.cumulative_returns)
        /\ SLen(results.buy_hold_cumulative) = SLen(results.cumulative_returns)

====
